---------------------------- MODULE Spec2Model ----------------------------
(***************************************************************************)
(* A model of the anybls proxy core: the routing matchers                  *)
(* (src/routing/matchers.rs), the rule-set store (src/routing/rule_sets.rs),*)
(* the decision cache (src/routing/cache.rs), the high-performance router  *)
(* (src/routing/router.rs), the legacy router (src/router.rs) and the      *)
(* connection pool (src/connection_pool.rs).                               *)
(*                                                                         *)
(* Strings are sequences of one-character strings over a three-letter      *)
(* alphabet that contains the label separator ".".  IP addresses are       *)
(* IPBits-bit integers (the code's u32 / u128 scaled down), tagged with    *)
(* their family.                                                           *)
(***************************************************************************)
EXTENDS Integers, Sequences, FiniteSets, TLC

VARIABLES
    \* DomainMatcher harness: one rule set, one queried domain, the verdicts
    dm_set, dm_domain, dm_result, legacy_result,
    \* IpMatcher harness: one CIDR list, one queried address, the verdict
    im_cidrs, im_ip, im_result,
    \* ConnectionPool: semaphore permits, per-target idle lists, the tasks
    semaphore, pools, task, held, next_conn,
    \* HighPerformanceRouter: its fields and the calls in progress
    rule_manager, matcher_cache, match_cache, rules, call, after_clear,
    \* ZeroCopyRelay: the two peers, the two copy loops, the result of start
    payload, to_send, closed, src, buffer, received, loop, relay_result,
    \* Socks5Response / Address codec harness: a reply, its bytes, the decoding
    resp, wire, decoded,
    \* Socks5Proxy::handle_connection: the client's two messages, the stage the
    \* task stands at, the stages it has entered, what it wrote to the client
    greeting, request, stage, done, sent, attempts, target, upstream, conn_result,
    \* the outbound the router named, the connector the outbound manager gave
    \* for it, the upstream sockets the connection has dialed
    outbound_name, connector, dials,
    \* Socks5Proxy::start: the accept loop, the spawned tasks and how they ended
    listening, accepted, ended, accept_errors, seen_at_accept,
    \* MatchCache harness: the cache, the last call made on it, the keys ever set
    mcache, last_call, ever_set,
    \* the two RwLocks of HighPerformanceRouter and the lookups that take them
    matcher_cache_lock, match_cache_lock, lookup,
    \* Protocol harness: a protocol object, the build target, the call made
    protocol, linux, proto_call,
    \* Socks5Outbound::connect harness: what the upstream server sends, the call
    \* the bytes relayed to the client afterwards
    server_script, s5_call, to_client,
    \* the lock of the pool's lists and its semaphore: who holds the write
    \* guard, the permits left, where each caller of the pool stands
    pools_lock, available_permits, caller,
    \* the client's two messages as sent, and the bytes of them not yet read
    client_msgs, pending

dmVars     == <<dm_set, dm_domain, dm_result, legacy_result>>
imVars     == <<im_cidrs, im_ip, im_result>>
poolVars   == <<semaphore, pools, task, held, next_conn>>
routerVars == <<rule_manager, matcher_cache, match_cache, rules, call, after_clear>>
relayVars  == <<payload, to_send, closed, src, buffer, received, loop, relay_result>>
codecVars  == <<resp, wire, decoded>>
connVars   == <<greeting, request, stage, done, sent, attempts, target, upstream,
                conn_result, outbound_name, connector, dials>>
lsnVars    == <<listening, accepted, ended, accept_errors, seen_at_accept>>
mcVars     == <<mcache, last_call, ever_set>>
lockVars   == <<matcher_cache_lock, match_cache_lock, lookup>>
protoVars  == <<protocol, linux, proto_call>>
s5Vars     == <<server_script, s5_call, to_client>>
obVars     == <<protoVars, s5Vars>>
plVars     == <<pools_lock, available_permits, caller>>
chunkVars  == <<client_msgs, pending>>
extVars    == <<lsnVars, mcVars, lockVars, obVars, plVars, chunkVars>>
netVars    == <<relayVars, codecVars, connVars, extVars>>
coreVars   == <<dmVars, imVars, poolVars, routerVars>>
vars       == <<dmVars, imVars, poolVars, routerVars, netVars>>

(***************************************************************************)
(* Bounds of the model.                                                    *)
(***************************************************************************)
MaxDomainLen == 3       \* longest queried domain / configured pattern, in characters
IPBits       == 3       \* width of an address (32 for IPv4, 128 for IPv6 in the code)
MaxDials     == 2       \* connections the pool's callers dial in one run
MaxRules     == 2       \* longest route-rule list
CacheMaxSize == 2       \* MatchCache::max_size of the modelled router
MaxPayload   == 3       \* most bytes a peer of the relay sends
BufCap       == 2       \* capacity of a copy loop's buffer (64 KB in the code)
MaxMethods   == 2       \* longest enumerated method list of a greeting
MaxCommand   == 2       \* greatest command byte of an enumerated request
MaxConns     == 3       \* connections the listener accepts in one run
MaxAcceptErrors == 1    \* failed accept calls in one run

(***************************************************************************)
(* Strings.                                                                *)
(***************************************************************************)
Chars == {".", "a", "b"}

\* byte order of the alphabet: '.' (0x2E) < 'a' (0x61) < 'b' (0x62)
CharCode(c) == IF c = "." THEN 46 ELSE IF c = "a" THEN 97 ELSE 98

Strs(n) == UNION {[1..k -> Chars] : k \in 0..n}

\* lexicographic byte order of two strings (the order fst's builder demands)
RECURSIVE StrLess(_, _)
StrLess(s, t) ==
    IF t = <<>> THEN FALSE
    ELSE IF s = <<>> THEN TRUE
    ELSE IF Head(s) # Head(t) THEN CharCode(Head(s)) < CharCode(Head(t))
    ELSE StrLess(Tail(s), Tail(t))

Reverse(s) == [i \in 1..Len(s) |-> s[Len(s) + 1 - i]]

\* str::split('.'): the labels between the dots; "" splits to one empty label
RECURSIVE SplitDot(_)
SplitDot(s) ==
    IF \A i \in 1..Len(s) : s[i] # "." THEN <<s>>
    ELSE LET p == CHOOSE i \in 1..Len(s) :
                      s[i] = "." /\ \A j \in 1..(i - 1) : s[j] # "."
         IN  <<SubSeq(s, 1, p - 1)>> \o SplitDot(SubSeq(s, p + 1, Len(s)))

\* [&str]::join(".")
RECURSIVE JoinDot(_)
JoinDot(labels) ==
    IF Len(labels) = 0 THEN <<>>
    ELSE IF Len(labels) = 1 THEN labels[1]
    ELSE labels[1] \o <<".">> \o JoinDot(Tail(labels))

\* str::ends_with
EndsWith(d, s) ==
    Len(s) <= Len(d) /\ SubSeq(d, Len(d) - Len(s) + 1, Len(d)) = s

\* str::contains / AhoCorasick::is_match for one pattern
Contains(d, k) ==
    \E i \in 1..(Len(d) + 1) :
        i + Len(k) - 1 <= Len(d) /\ SubSeq(d, i, i + Len(k) - 1) = k

Range(f) == {f[i] : i \in DOMAIN f}

(***************************************************************************)
(* DomainMatcher (src/routing/matchers.rs).                                *)
(***************************************************************************)
MatcherResult == {"Match", "NoMatch"}

\* DomainMatcher::reverse_domain
reverse_domain(domain) == JoinDot(Reverse(SplitDot(domain)))

\* fst::SetBuilder::insert over a list of keys: the build fails when a key is
\* smaller than the key inserted before it
FstInsertOk(keys) ==
    \A i \in 1..(Len(keys) - 1) : ~StrLess(keys[i + 1], keys[i])

\* A regex of the modelled subset: a literal with optional ^ and $ anchors
RegexIsMatch(re, d) ==
    IF re.start /\ re.end THEN d = re.lit
    ELSE IF re.start THEN Len(re.lit) <= Len(d) /\ SubSeq(d, 1, Len(re.lit)) = re.lit
    ELSE IF re.end THEN EndsWith(d, re.lit)
    ELSE Contains(d, re.lit)

\* regex::RegexSet::new on one pattern: a literal over the alphabet compiles,
\* a pattern holding an unclosed group "(" is a syntax error
RegexCompiles(re) == \A i \in 1..Len(re.lit) : re.lit[i] \in Chars

\* DomainMatcher::new: the four compiled structures, or the build error
DomainMatcher_new(exact_domains, suffix_domains, keyword_domains, regex_domains) ==
    LET reversed == [i \in 1..Len(suffix_domains) |-> reverse_domain(suffix_domains[i])]
    IN  IF /\ FstInsertOk(exact_domains)
           /\ FstInsertOk(reversed)
           /\ \A i \in 1..Len(regex_domains) : RegexCompiles(regex_domains[i])
        THEN [exact_domains   |-> Range(exact_domains),
              suffix_domains  |-> Range(reversed),
              ok              |-> TRUE,
              keyword_matcher |-> Range(keyword_domains),
              regex_matcher   |-> Range(regex_domains)]
        ELSE [ok |-> FALSE]

\* step 2 of DomainMatcher::matches: the reversed domain is looked up in the
\* set of reversed suffixes (fst::Set::contains is whole-key membership)
SuffixLookup(m, domain) == reverse_domain(domain) \in m.suffix_domains

\* DomainMatcher::matches
DomainMatcher_matches(m, domain) ==
    IF domain \in m.exact_domains THEN "Match"
    ELSE IF SuffixLookup(m, domain) THEN "Match"
    ELSE IF \E k \in m.keyword_matcher : Contains(domain, k) THEN "Match"
    ELSE IF \E re \in m.regex_matcher : RegexIsMatch(re, domain) THEN "Match"
    ELSE "NoMatch"

\* the domain part of the legacy Router::select_outbound_for_domain, for one
\* compiled rule: TRUE when the rule selects its outbound
\* (eq_ignore_ascii_case is equality on the lower-case alphabet of the model)
LegacyRuleMatchesDomain(r, domain) ==
    \/ \E i \in 1..Len(r.domain) : r.domain[i] = domain
    \/ \E i \in 1..Len(r.domain_suffix) : EndsWith(domain, r.domain_suffix[i])
    \/ \E i \in 1..Len(r.domain_keyword) : Contains(domain, r.domain_keyword[i])
    \/ \E i \in 1..Len(r.domain_regex) : RegexIsMatch(r.domain_regex[i], domain)

\* a DomainRuleSet whose only criterion is the suffix s
SuffixOnlySet(id, s) ==
    [domain |-> <<>>, domain_suffix |-> <<s>>, domain_keyword |-> <<>>,
     domain_regex |-> <<>>, id |-> id]

(***************************************************************************)
(* IpMatcher (src/routing/matchers.rs).                                    *)
(***************************************************************************)
Pow2(n) == 2 ^ n

Families == {"v4", "v6"}
IpAddrs  == [fam : Families, bits : 0..(Pow2(IPBits) - 1)]
IpNets   == [fam : Families, addr : 0..(Pow2(IPBits) - 1), prefix_len : 0..IPBits]

\* IpMatcher::ipv4_to_prefix: ip & mask, the mask keeping the top prefix_len bits
ipv4_to_prefix(addr, prefix_len) ==
    IF prefix_len = 0 THEN 0
    ELSE addr - (addr % Pow2(IPBits - prefix_len))

\* radix_trie's TrieKey::encode for an integer key: its big-endian digits,
\* always the full width of the integer type
RECURSIVE EncodeKey(_, _)
EncodeKey(k, width) ==
    IF width = 0 THEN <<>>
    ELSE EncodeKey(k \div 2, width - 1) \o <<k % 2>>

IsPrefixOf(p, s) == Len(p) <= Len(s) /\ SubSeq(s, 1, Len(p)) = p

\* radix_trie::Trie::get_ancestor(key).is_some(): some stored key's encoding
\* is a prefix of the encoding of the queried key
get_ancestor_is_some(trie, key) ==
    \E k \in trie : IsPrefixOf(EncodeKey(k, IPBits), EncodeKey(key, IPBits))

\* ipnet::Ipv6Net::contains
Ipv6NetContains(net, bits) ==
    bits \div Pow2(IPBits - net.prefix_len) = net.addr \div Pow2(IPBits - net.prefix_len)

\* IpMatcher::new
IpMatcher_new(ip_cidrs) ==
    [ipv4_trie     |-> {ipv4_to_prefix(ip_cidrs[i].addr, ip_cidrs[i].prefix_len) :
                           i \in {j \in 1..Len(ip_cidrs) : ip_cidrs[j].fam = "v4"}},
     ipv6_networks |-> {ip_cidrs[i] : i \in {j \in 1..Len(ip_cidrs) : ip_cidrs[j].fam = "v6"}}]

\* the IPv4 arm of IpMatcher::matches
Ipv4Lookup(m, bits) == get_ancestor_is_some(m.ipv4_trie, ipv4_to_prefix(bits, IPBits))

\* IpMatcher::matches
IpMatcher_matches(m, ip) ==
    IF ip.fam = "v4"
    THEN (IF Ipv4Lookup(m, ip.bits) THEN "Match" ELSE "NoMatch")
    ELSE (IF \E net \in m.ipv6_networks : Ipv6NetContains(net, ip.bits)
          THEN "Match" ELSE "NoMatch")

(***************************************************************************)
(* ConnectionPool (src/connection_pool.rs).                                *)
(*                                                                         *)
(* A connection is [id, target_addr, idle]; idle is the time since         *)
(* last_used, in ticks, and saturates one tick past the idle timeout.      *)
(* task[t] is where caller t stands inside get_connection; held[t] is the  *)
(* set of connections get_connection has handed to t and t still owns.     *)
(***************************************************************************)
max_total_connections      == 1
max_connections_per_target == 1
idle_timeout               == 1

Tasks   == {"t1", "t2"}
Targets == {"h1", "h2"}

\* PooledConnection::new
PooledConnection_new(id, target_addr) ==
    [id |-> id, target_addr |-> target_addr, idle |-> 0]

\* PooledConnection::is_expired
is_expired(conn) == conn.idle > idle_timeout

\* PooledConnection::update_last_used
update_last_used(conn) == [conn EXCEPT !.idle = 0]

\* faulty variant: retain keeps every entry
RetainAll(pool) == pool

\* Vec::retain(|conn| !conn.is_expired(..))
RECURSIVE RetainLive(_)
RetainLive(pool) ==
    IF pool = <<>> THEN <<>>
    ELSE IF is_expired(Head(pool)) THEN RetainLive(Tail(pool))
    ELSE <<Head(pool)>> \o RetainLive(Tail(pool))

TaskIdle == [target |-> "none", pc |-> "idle"]

Issued     == UNION {held[t] : t \in Tasks}
PooledIdle == UNION {Range(pools[a]) : a \in Targets}

\* faulty variant: the entry handed to the caller stays in the list
GetFromPoolKeeping(t, target_addr) ==
    /\ task[t].pc = "idle"
    /\ pools' = [pools EXCEPT ![target_addr] = RetainLive(@)]
    /\ IF pools'[target_addr] /= <<>>
       THEN /\ held' = [held EXCEPT ![t] =
                           @ \cup {pools'[target_addr][Len(pools'[target_addr])]}]
            /\ task' = task
       ELSE /\ held' = held
            /\ task' = [task EXCEPT ![t] = [target |-> target_addr, pc |-> "acquire"]]
    /\ UNCHANGED <<semaphore, next_conn>>
    /\ UNCHANGED <<dmVars, imVars, routerVars, netVars>>

\* get_connection, lines 81-84 and get_from_pool: under the write lock the
\* target's list drops its expired entries and its last entry is popped; with
\* none to reuse the caller goes on to the admission semaphore
GetFromPool(t, target_addr) ==
    /\ task[t].pc = "idle"
    /\ LET live == RetainLive(pools[target_addr])
       IN  IF live # <<>>
           THEN /\ pools' = [pools EXCEPT ![target_addr] = SubSeq(live, 1, Len(live) - 1)]
                /\ held' = [held EXCEPT ![t] = @ \cup {live[Len(live)]}]
                /\ task' = task
           ELSE /\ pools' = [pools EXCEPT ![target_addr] = live]
                /\ held' = held
                /\ task' = [task EXCEPT ![t] = [target |-> target_addr, pc |-> "acquire"]]
    /\ UNCHANGED <<semaphore, next_conn>>
    /\ UNCHANGED <<dmVars, imVars, routerVars, netVars>>

\* get_connection, line 88: semaphore.acquire().await takes one permit, and
\* waits while there is none
AcquirePermit(t) ==
    /\ task[t].pc = "acquire"
    /\ semaphore > 0
    /\ semaphore' = semaphore - 1
    /\ task' = [task EXCEPT ![t].pc = "connect"]
    /\ UNCHANGED <<pools, held, next_conn>>
    /\ UNCHANGED <<dmVars, imVars, routerVars, netVars>>

\* faulty variant: the permit stays with the connection handed out
PermitsKept(permits) == permits

\* where the permit taken at line 88 goes when get_connection returns: the
\* guard _permit is a local of get_connection and is dropped at its end
PermitsAfterReturn(permits) == permits + 1

\* get_connection, lines 91-98: the dial succeeds and the new connection is
\* returned to the caller
ConnectOk(t) ==
    /\ task[t].pc = "connect"
    /\ next_conn < MaxDials
    /\ next_conn' = next_conn + 1
    /\ held' = [held EXCEPT ![t] = @ \cup {PooledConnection_new(next_conn + 1, task[t].target)}]
    /\ semaphore' = PermitsAfterReturn(semaphore)
    /\ task' = [task EXCEPT ![t] = TaskIdle]
    /\ UNCHANGED pools
    /\ UNCHANGED <<dmVars, imVars, routerVars, netVars>>

\* get_connection, lines 91-96: the dial fails or times out, ConnectionFailed
ConnectFailed(t) ==
    /\ task[t].pc = "connect"
    /\ semaphore' = PermitsAfterReturn(semaphore)
    /\ task' = [task EXCEPT ![t] = TaskIdle]
    /\ UNCHANGED <<pools, held, next_conn>>
    /\ UNCHANGED <<dmVars, imVars, routerVars, netVars>>

\* faulty variant: the connection is pushed whatever the length of the list
ReturnConnectionUnbounded(t, conn) ==
    /\ conn \in held[t]
    /\ held' = [held EXCEPT ![t] = @ \ {conn}]
    /\ pools' = [pools EXCEPT ![conn.target_addr] = Append(@, update_last_used(conn))]
    /\ UNCHANGED <<semaphore, task, next_conn>>
    /\ UNCHANGED <<dmVars, imVars, routerVars, netVars>>

\* return_connection
ReturnConnection(t, conn) ==
    /\ conn \in held[t]
    /\ held' = [held EXCEPT ![t] = @ \ {conn}]
    /\ IF is_expired(conn)
       THEN pools' = pools
       ELSE IF Len(pools[conn.target_addr]) < max_connections_per_target
            THEN pools' = [pools EXCEPT ![conn.target_addr] =
                               Append(@, update_last_used(conn))]
            ELSE pools' = pools
    /\ UNCHANGED <<semaphore, task, next_conn>>
    /\ UNCHANGED <<dmVars, imVars, routerVars, netVars>>

\* PooledConnection::into_stream: the caller keeps the stream for itself
IntoStream(t, conn) ==
    /\ conn \in held[t]
    /\ held' = [held EXCEPT ![t] = @ \ {conn}]
    /\ UNCHANGED <<semaphore, pools, task, next_conn>>
    /\ UNCHANGED <<dmVars, imVars, routerVars, netVars>>

\* cleanup_expired (run by the task of start_connection_pool_cleanup)
CleanupExpired ==
    /\ \E a \in Targets : \E i \in 1..Len(pools[a]) : is_expired(pools[a][i])
    /\ pools' = [a \in Targets |-> RetainLive(pools[a])]
    /\ UNCHANGED <<semaphore, task, held, next_conn>>
    /\ UNCHANGED <<dmVars, imVars, routerVars, netVars>>

\* time passes: every connection's last_used.elapsed() grows by one tick
Age(conn) == [conn EXCEPT !.idle = IF @ > idle_timeout THEN @ ELSE @ + 1]

Tick ==
    /\ \E c \in Issued \cup PooledIdle : c.idle <= idle_timeout
    /\ pools' = [a \in Targets |-> [i \in 1..Len(pools[a]) |-> Age(pools[a][i])]]
    /\ held' = [t \in Tasks |-> {Age(c) : c \in held[t]}]
    /\ UNCHANGED <<semaphore, task, next_conn>>
    /\ UNCHANGED <<dmVars, imVars, routerVars, netVars>>

\* ConnectionPool::new
PoolInit ==
    /\ semaphore = max_total_connections
    /\ pools = [a \in Targets |-> <<>>]
    /\ task = [t \in Tasks |-> TaskIdle]
    /\ held = [t \in Tasks |-> {}]
    /\ next_conn = 0

(***************************************************************************)
(* RuleSetManager (src/routing/rule_sets.rs), MatcherCache                 *)
(* (src/routing/matchers.rs) and MatchCache (src/routing/cache.rs).        *)
(* A HashMap is a function whose domain is the set of keys present.        *)
(***************************************************************************)
EmptyMap == <<>>

MapGet(map, k) == IF k \in DOMAIN map THEN map[k] ELSE "None"

\* faulty variant: a key already present keeps its value
MapInsertIfAbsent(map, k, v) ==
    [x \in DOMAIN map \cup {k} |-> IF x \in DOMAIN map THEN map[x] ELSE v]

MapInsert(map, k, v) == [x \in DOMAIN map \cup {k} |-> IF x = k THEN v ELSE map[x]]

MapRemoveAll(map, ks) == [x \in DOMAIN map \ ks |-> map[x]]

\* RuleSetManager::new
RuleSetManager_new == [domain_sets |-> EmptyMap, ip_sets |-> EmptyMap]

\* RuleSetManager::add_domain_set
add_domain_set(manager, set) ==
    [manager EXCEPT !.domain_sets = MapInsert(@, set.id, set)]

\* RuleSetManager::add_ip_set
add_ip_set(manager, set) ==
    [manager EXCEPT !.ip_sets = MapInsert(@, set.id, set)]

\* RuleSetManager::get_domain_set
get_domain_set(manager, id) == MapGet(manager.domain_sets, id)

\* RuleSetManager::get_ip_set
get_ip_set(manager, id) == MapGet(manager.ip_sets, id)

\* MatcherCache::new; poisoned is the state of the RwLock that guards it
MatcherCache_new == [domain_matchers |-> EmptyMap, ip_matchers |-> EmptyMap, poisoned |-> FALSE]

\* MatcherCache::get_domain_matcher: <<the cache afterwards, the matcher>>
get_domain_matcher(cache, key, set) ==
    IF key \in DOMAIN cache.domain_matchers
    THEN <<cache, cache.domain_matchers[key]>>
    ELSE LET matcher == DomainMatcher_new(set.domain, set.domain_suffix,
                                          set.domain_keyword, set.domain_regex)
         IN  IF matcher.ok
             THEN <<[cache EXCEPT !.domain_matchers = MapInsert(@, key, matcher)], matcher>>
             ELSE <<cache, matcher>>

\* MatcherCache::get_ip_matcher: <<the cache afterwards, the matcher>>
get_ip_matcher(cache, key, set) ==
    IF key \in DOMAIN cache.ip_matchers
    THEN <<cache, cache.ip_matchers[key]>>
    ELSE LET matcher == IpMatcher_new(set.ip_cidr)
         IN  <<[cache EXCEPT !.ip_matchers = MapInsert(@, key, matcher)], matcher>>

\* MatchCache::new
MatchCache_new(max_size) ==
    [max_size |-> max_size, domain_cache |-> EmptyMap, ip_cache |-> EmptyMap]

\* MatchCache::get_domain
get_domain(cache, domain) == MapGet(cache.domain_cache, domain)

\* MatchCache::get_ip
get_ip(cache, ip) == MapGet(cache.ip_cache, ip)

\* faulty variant: on overflow every entry is evicted
VictimsAll(map, max_size) ==
    IF Cardinality(DOMAIN map) >= max_size THEN {DOMAIN map} ELSE {{}}

\* the key sets keys().take(to_remove) can yield: HashMap iteration order is
\* arbitrary, so any to_remove of the keys present
Victims(map, max_size) ==
    IF Cardinality(DOMAIN map) >= max_size
    THEN {ks \in SUBSET DOMAIN map : Cardinality(ks) = Cardinality(DOMAIN map) \div 2}
    ELSE {{}}

\* faulty variant: the batch is evicted after the new entry is inserted
set_domain_evicting_last(cache, domain, result, victims) ==
    [cache EXCEPT !.domain_cache = MapRemoveAll(MapInsert(@, domain, result), victims)]

\* MatchCache::set_domain, the evicted keys given
set_domain(cache, domain, result, victims) ==
    [cache EXCEPT !.domain_cache = MapInsert(MapRemoveAll(@, victims), domain, result)]

\* MatchCache::set_ip, the evicted keys given
set_ip(cache, ip, result, victims) ==
    [cache EXCEPT !.ip_cache = MapInsert(MapRemoveAll(@, victims), ip, result)]

\* MatchCache::clear
clear(cache) == [cache EXCEPT !.domain_cache = EmptyMap, !.ip_cache = EmptyMap]

(***************************************************************************)
(* HighPerformanceRouter (src/routing/router.rs).                          *)
(*                                                                         *)
(* call[t] is the select_outbound_for_domain / select_outbound_for_ip call *)
(* of thread t: its key, what the decision cache held for the key (hit),   *)
(* whether it runs find_matching_outbound_* (find), the rule and rule set  *)
(* it evaluates next (ri, si), whether it has evaluated a rule (walked),   *)
(* the MatcherResult it will store (result) and the outbound it returns.   *)
(* after_clear[t] records the order of t's call and clear_cache:           *)
(* old = clear_cache ran after t's call returned its outbound; post = the  *)
(* threads whose result was old when t's call began.                       *)
(***************************************************************************)
default_outbound == "direct"

Threads == {"c1", "c2"}

DomainKeys == {<<"a">>, <<"b", ".", "a">>}
IpKeys     == {[fam |-> "v4", bits |-> 0]}
DomainKey(d) == [v |-> d, kind |-> "domain"]
IpKey(ip)    == [v |-> ip, kind |-> "ip"]
NoKey        == [v |-> "none", kind |-> "none"]

\* the rule sets registered before the router serves queries
KeywordOnlySet(id, k) ==
    [domain |-> <<>>, domain_suffix |-> <<>>, domain_keyword |-> <<k>>,
     domain_regex |-> <<>>, id |-> id]

InitialManager ==
    add_ip_set(
        add_domain_set(
            add_domain_set(RuleSetManager_new, SuffixOnlySet("A", <<"a">>)),
            KeywordOnlySet("B", <<"a">>)),
        [id |-> "P", ip_cidr |-> <<[fam |-> "v4", addr |-> 0, prefix_len |-> IPBits]>>])

\* a manager in which rule set A has been given other content
ReplacedManager ==
    add_domain_set(InitialManager, SuffixOnlySet("A", <<"b", ".", "a">>))

\* a DomainRuleSet whose only criterion is the regex re
RegexOnlySet(id, re) ==
    [domain |-> <<>>, domain_suffix |-> <<>>, domain_keyword |-> <<>>,
     domain_regex |-> <<re>>, id |-> id]

\* the pattern "(": an unclosed group
BadRegex == [start |-> FALSE, end |-> FALSE, lit |-> <<"(">>]

\* a manager in which rule set A holds a pattern that does not compile
MalformedManager ==
    add_domain_set(InitialManager, RegexOnlySet("A", BadRegex))

RuleUniverse ==
    [rule_sets : {<<"A">>, <<"Z", "B", "P">>}, outbound : {"x", "y"}]

RuleLists == UNION {[1..n -> RuleUniverse] : n \in 0..MaxRules}

CallIdle ==
    [key |-> NoKey, pc |-> "idle", result |-> "None", hit |-> "None",
     find |-> FALSE, ri |-> 0, si |-> 0, walked |-> FALSE, out |-> "none"]

OrderIdle == [old |-> FALSE, post |-> {}]

\* faulty variant: only the first rule set of a rule is tried
RECURSIVE NextPairFirstSetOnly(_, _, _)
NextPairFirstSetOnly(rs, ri, si) ==
    IF ri > Len(rs) THEN <<ri, 1>>
    ELSE IF si > 1 \/ si > Len(rs[ri].rule_sets) THEN NextPairFirstSetOnly(rs, ri + 1, 1)
    ELSE <<ri, si>>

\* the next (rule, rule set) pair of the two nested for loops at or after
\* (ri, si); ri = Len(rs) + 1 when the loops are over
RECURSIVE NextPair(_, _, _)
NextPair(rs, ri, si) ==
    IF ri > Len(rs) THEN <<ri, 1>>
    ELSE IF si > Len(rs[ri].rule_sets) THEN NextPair(rs, ri + 1, 1)
    ELSE <<ri, si>>

\* faulty variant: the outbound of the last rule, whichever rule matched
MatchedOutboundOfLast(rs, ri) == rs[Len(rs)].outbound

\* the outbound of the rule the loop stands at when the rule matches
\* (return rule.outbound.clone())
MatchedOutbound(rs, ri) == rs[ri].outbound

\* faulty variant: the first rule's outbound when no rule matched
UnmatchedOutboundFirstRule(rs) == IF Len(rs) > 0 THEN rs[1].outbound ELSE default_outbound

\* the outbound when the loop ends without a matching rule
\* (self.default_outbound.clone())
UnmatchedOutbound(rs) == default_outbound

\* the rule at c.ri matched: find_matching_outbound_* returns its outbound;
\* select_outbound_* goes on to cache Match and then returns it
OnMatch(c) ==
    IF c.find
    THEN [c EXCEPT !.pc = "done", !.out = MatchedOutbound(rules, c.ri)]
    ELSE [c EXCEPT !.pc = "store", !.result = "Match", !.out = MatchedOutbound(rules, c.ri)]

\* the loop over the rules ended: find_matching_outbound_* returns the default;
\* select_outbound_* goes on to cache NoMatch and then returns the default
OnNoMatch(c) ==
    IF c.find
    THEN [c EXCEPT !.pc = "done", !.out = UnmatchedOutbound(rules)]
    ELSE [c EXCEPT !.pc = "store", !.result = "NoMatch", !.out = UnmatchedOutbound(rules)]

\* move the call to the next pair to evaluate, or out of the loop
Advance(c, ri, si) ==
    LET p == NextPair(rules, ri, si)
    IN  IF p[1] > Len(rules) THEN OnNoMatch([c EXCEPT !.ri = p[1], !.si = p[2]])
        ELSE [c EXCEPT !.pc = "walk", !.ri = p[1], !.si = p[2]]

\* faulty variant: a cached Match returns the default outbound at once
AfterLookupTrustingHit(key, cached) ==
    IF cached = "Match"
    THEN [CallIdle EXCEPT !.pc = "done", !.key = key, !.hit = cached,
                          !.out = default_outbound]
    ELSE Advance([CallIdle EXCEPT !.key = key, !.hit = cached, !.find = FALSE], 1, 1)

\* faulty variant: find_matching_outbound_* skips the first rule
FindStartsAtSecondRule(key, cached) ==
    Advance([CallIdle EXCEPT !.key = key, !.hit = cached, !.find = (cached = "Match")],
            IF cached = "Match" THEN 2 ELSE 1, 1)

\* what the call does with the cache lookup of lines 51-55 / 74-78: a cached
\* Match sends it to find_matching_outbound_*, anything else to the rule loop
AfterLookup(key, cached) ==
    Advance([CallIdle EXCEPT !.key = key, !.hit = cached, !.find = (cached = "Match")], 1, 1)

\* select_outbound_for_domain / select_outbound_for_ip up to the first rule
BeginSelect(t, key) ==
    /\ call[t].pc = "idle"
    /\ call' = [call EXCEPT ![t] =
                   AfterLookup(key, IF key.kind = "domain"
                                    THEN get_domain(match_cache, key.v)
                                    ELSE get_ip(match_cache, key.v))]
    /\ after_clear' = [after_clear EXCEPT ![t] =
                          [old |-> FALSE, post |-> {u \in Threads : after_clear[u].old}]]
    /\ UNCHANGED <<rule_manager, matcher_cache, match_cache, rules>>
    /\ UNCHANGED <<dmVars, imVars, poolVars, netVars>>

\* one pass of the loop body of matches_domain_rule / matches_ip_rule: the
\* rule set is looked up and, when present, matches_domain_set / matches_ip_set
\* takes the matcher from the matcher cache (building it on a miss) and asks it
EvalRuleSet(t) ==
    /\ call[t].pc = "walk"
    /\ LET c   == call[t]
           id  == rules[c.ri].rule_sets[c.si]
           set == IF c.key.kind = "domain" THEN get_domain_set(rule_manager, id)
                                           ELSE get_ip_set(rule_manager, id)
           present == IF c.key.kind = "domain" THEN id \in DOMAIN rule_manager.domain_sets
                                               ELSE id \in DOMAIN rule_manager.ip_sets
           w   == [c EXCEPT !.walked = TRUE]
       IN  IF ~present
           THEN /\ call' = [call EXCEPT ![t] = Advance(w, c.ri, c.si + 1)]
                /\ matcher_cache' = matcher_cache
           ELSE IF matcher_cache.poisoned
           THEN /\ call' = [call EXCEPT ![t] = [w EXCEPT !.pc = "panicked"]]
                /\ matcher_cache' = matcher_cache
           ELSE IF c.key.kind = "domain"
           THEN LET got == get_domain_matcher(matcher_cache, id, set)
                IN  IF ~got[2].ok
                    THEN /\ call' = [call EXCEPT ![t] = [w EXCEPT !.pc = "panicked"]]
                         /\ matcher_cache' = [matcher_cache EXCEPT !.poisoned = TRUE]
                    ELSE /\ matcher_cache' = got[1]
                         /\ call' = [call EXCEPT ![t] =
                                IF DomainMatcher_matches(got[2], c.key.v) = "Match"
                                THEN OnMatch(w)
                                ELSE Advance(w, c.ri, c.si + 1)]
           ELSE LET got == get_ip_matcher(matcher_cache, id, set)
                IN  /\ matcher_cache' = got[1]
                    /\ call' = [call EXCEPT ![t] =
                           IF IpMatcher_matches(got[2], c.key.v) = "Match"
                           THEN OnMatch(w)
                           ELSE Advance(w, c.ri, c.si + 1)]
    /\ UNCHANGED <<rule_manager, match_cache, rules, after_clear>>
    /\ UNCHANGED <<dmVars, imVars, poolVars, netVars>>

\* select_outbound_*, lines 61-62 and 67-68 (84-85, 90-91): the verdict is
\* written to the decision cache and the outbound returned
StoreResult(t) ==
    /\ call[t].pc = "store"
    /\ LET c == call[t]
       IN  IF c.key.kind = "domain"
           THEN \E victims \in Victims(match_cache.domain_cache, match_cache.max_size) :
                    match_cache' = set_domain(match_cache, c.key.v, c.result, victims)
           ELSE \E victims \in Victims(match_cache.ip_cache, match_cache.max_size) :
                    match_cache' = set_ip(match_cache, c.key.v, c.result, victims)
    /\ call' = [call EXCEPT ![t].pc = "done"]
    /\ UNCHANGED <<rule_manager, matcher_cache, rules, after_clear>>
    /\ UNCHANGED <<dmVars, imVars, poolVars, netVars>>

\* the caller takes the returned outbound; the thread is free for its next call
FinishCall(t) ==
    /\ call[t].pc = "done"
    /\ call' = [call EXCEPT ![t] = CallIdle]
    /\ after_clear' = [u \in Threads |->
                          IF u = t THEN OrderIdle
                          ELSE [after_clear[u] EXCEPT !.post = @ \ {t}]]
    /\ UNCHANGED <<rule_manager, matcher_cache, match_cache, rules>>
    /\ UNCHANGED <<dmVars, imVars, poolVars, netVars>>

\* HighPerformanceRouter::clear_cache
ClearCache ==
    /\ match_cache' = clear(match_cache)
    /\ after_clear' = [u \in Threads |->
                          IF call[u].pc = "done" THEN [after_clear[u] EXCEPT !.old = TRUE]
                          ELSE after_clear[u]]
    /\ UNCHANGED <<rule_manager, matcher_cache, rules, call>>
    /\ UNCHANGED <<dmVars, imVars, poolVars, netVars>>

\* HighPerformanceRouter::set_rule_manager; it takes &mut self, so no call
\* is in progress
SetRuleManager(manager) ==
    /\ \A t \in Threads : call[t].pc = "idle"
    /\ rule_manager # manager
    /\ rule_manager' = manager
    /\ UNCHANGED <<matcher_cache, match_cache, rules, call, after_clear>>
    /\ UNCHANGED <<dmVars, imVars, poolVars, netVars>>

\* the ids rule sets are added under; "A" is used for a domain set and for
\* an IP set
RuleSetIds == {"A", "B"}

DomainSetInputs ==
    {SuffixOnlySet(id, <<"a">>) : id \in RuleSetIds}
    \cup {KeywordOnlySet(id, <<"a">>) : id \in RuleSetIds}
    \cup {SuffixOnlySet(id, <<"b", ".", "a">>) : id \in RuleSetIds}

IpSetInputs ==
    {[id |-> id, ip_cidr |-> <<[fam |-> f, addr |-> 0, prefix_len |-> IPBits]>>] :
        id \in RuleSetIds, f \in Families}

\* RuleSetManager::add_domain_set called on the manager; call keeps the call
AddDomainSet(set) ==
    /\ rule_manager' = add_domain_set(rule_manager, set)
    /\ call' = [set |-> set, op |-> "add_domain_set"]
    /\ UNCHANGED <<matcher_cache, match_cache, rules, after_clear>>
    /\ UNCHANGED <<dmVars, imVars, poolVars, netVars>>

\* RuleSetManager::add_ip_set called on the manager; call keeps the call
AddIpSet(set) ==
    /\ rule_manager' = add_ip_set(rule_manager, set)
    /\ call' = [set |-> set, op |-> "add_ip_set"]
    /\ UNCHANGED <<matcher_cache, match_cache, rules, after_clear>>
    /\ UNCHANGED <<dmVars, imVars, poolVars, netVars>>

\* a manager just made by RuleSetManager::new, no router around it
RuleSetsInit ==
    /\ rule_manager = RuleSetManager_new
    /\ matcher_cache = <<>>
    /\ match_cache = <<>>
    /\ rules = <<>>
    /\ call = <<>>
    /\ after_clear = <<>>

\* HighPerformanceRouter::new, add_rule for each rule, set_rule_manager
RouterInit ==
    /\ rule_manager = InitialManager
    /\ matcher_cache = MatcherCache_new
    /\ match_cache = MatchCache_new(CacheMaxSize)
    /\ rules \in RuleLists
    /\ call = [t \in Threads |-> CallIdle]
    /\ after_clear = [t \in Threads |-> OrderIdle]


\* the same construction with a rule manager that holds malformed content:
\* neither set_rule_manager nor add_rule looks into the rule sets
RouterInitMalformed ==
    /\ rule_manager = MalformedManager
    /\ matcher_cache = MatcherCache_new
    /\ match_cache = MatchCache_new(CacheMaxSize)
    /\ rules \in RuleLists
    /\ call = [t \in Threads |-> CallIdle]
    /\ after_clear = [t \in Threads |-> OrderIdle]

(***************************************************************************)
(* Harness of the two matchers: the inputs are drawn in the initial state, *)
(* the actions build the matcher and query it.                             *)
(***************************************************************************)
Pending == "Pending"

\* the legacy router's compiled rule with the same content as a rule set
CompiledRuleOf(set) ==
    [domain |-> set.domain, domain_suffix |-> set.domain_suffix, domain_keyword |-> set.domain_keyword,
     domain_regex |-> set.domain_regex, outbound |-> "proxy"]

\* host names: dot-separated labels, none of them empty
HostNames == {s \in Strs(MaxDomainLen) :
                 LET labels == SplitDot(s)
                 IN  \A i \in 1..Len(labels) : labels[i] # <<>>}

DmInit ==
    /\ dm_set \in {SuffixOnlySet("s", s) : s \in HostNames}
    /\ dm_domain \in HostNames
    /\ dm_result = Pending
    /\ legacy_result = Pending

\* lists of at most one pattern
AtMostOne(S) == {<<>>} \cup {<<x>> : x \in S}

ShortNames == {<<"a">>, <<"b">>, <<"a", "b">>, <<"b", ".", "a">>}
Keywords   == {<<"b">>, <<"a", ".">>}
Regexes    == {[start |-> TRUE, end |-> FALSE, lit |-> <<"b">>],
               [start |-> FALSE, end |-> TRUE, lit |-> <<".", "b">>]}

\* rule sets with any of the four criteria present
DmInitAll ==
    /\ dm_set \in [domain : AtMostOne(ShortNames), domain_suffix : AtMostOne(ShortNames),
                   domain_keyword : AtMostOne(Keywords), domain_regex : AtMostOne(Regexes),
                   id : {"s"}]
    /\ dm_domain \in HostNames
    /\ dm_result = Pending
    /\ legacy_result = Pending

DmIdle ==
    /\ dm_set = SuffixOnlySet("s", <<>>)
    /\ dm_domain = <<>>
    /\ dm_result = Pending
    /\ legacy_result = Pending

\* DomainMatcher::new(..).unwrap().matches(domain)
MatchDomain ==
    /\ dm_result = Pending
    /\ LET m == DomainMatcher_new(dm_set.domain, dm_set.domain_suffix,
                                  dm_set.domain_keyword, dm_set.domain_regex)
       IN  /\ m.ok
           /\ dm_result' = DomainMatcher_matches(m, dm_domain)
    /\ UNCHANGED <<dm_set, dm_domain, legacy_result>>
    /\ UNCHANGED <<imVars, poolVars, routerVars, netVars>>

\* Router::select_outbound_for_domain of the legacy router with the one rule
LegacySelectDomain ==
    /\ legacy_result = Pending
    /\ legacy_result' = IF LegacyRuleMatchesDomain(CompiledRuleOf(dm_set), dm_domain)
                        THEN "Match" ELSE "NoMatch"
    /\ UNCHANGED <<dm_set, dm_domain, dm_result>>
    /\ UNCHANGED <<imVars, poolVars, routerVars, netVars>>

\* lists of at most two CIDRs
CidrLists == {<<>>} \cup {<<n>> : n \in IpNets} \cup {<<n1, n2>> : n1 \in IpNets, n2 \in IpNets}

ImInit ==
    /\ im_cidrs \in CidrLists
    /\ im_ip \in IpAddrs
    /\ im_result = Pending

ImIdle ==
    /\ im_cidrs = <<>>
    /\ im_ip = [fam |-> "v4", bits |-> 0]
    /\ im_result = Pending

\* IpMatcher::new(..).unwrap().matches(ip)
MatchIp ==
    /\ im_result = Pending
    /\ im_result' = IpMatcher_matches(IpMatcher_new(im_cidrs), im_ip)
    /\ UNCHANGED <<im_cidrs, im_ip>>
    /\ UNCHANGED <<dmVars, poolVars, routerVars, netVars>>

PoolIdle ==
    /\ semaphore = 0
    /\ pools = <<>>
    /\ task = <<>>
    /\ held = <<>>
    /\ next_conn = 0

RouterIdle ==
    /\ rule_manager = <<>>
    /\ matcher_cache = <<>>
    /\ match_cache = <<>>
    /\ rules = <<>>
    /\ call = <<>>
    /\ after_clear = <<>>

(***************************************************************************)
(* ZeroCopyRelay (src/zero_copy.rs).                                       *)
(*                                                                         *)
(* The peers are the client and the target (the upstream).  payload[p] is  *)
(* what peer p sends in the run, to_send[p] the part it has not sent yet,  *)
(* closed[p] whether it has closed its sending side, src[p] the bytes it   *)
(* has sent that the relay has not read yet, received[p] the bytes the     *)
(* relay has written to it.  loop[d] is where the copy loop of direction d *)
(* stands: read, write, eof (returned Ok), err (returned Err) or dropped   *)
(* (its future was dropped by try_join).  A write to a TcpStream with a    *)
(* non-empty buffer returns at least one byte or an error.                 *)
(***************************************************************************)
Peers == {"client", "target"}
Dirs  == {"c2t", "t2c"}

\* the halves ZeroCopyRelay::start hands to each relay_data future
Source(d) == IF d = "c2t" THEN "client" ELSE "target"
Dest(d)   == IF d = "c2t" THEN "target" ELSE "client"
Other(d)  == IF d = "c2t" THEN "t2c" ELSE "c2t"

Running == "Running"

\* futures::future::try_join of the two loops: Err as soon as one returns Err,
\* Ok when both have returned Ok, pending otherwise
try_join(a, b) ==
    IF a = "err" \/ b = "err" THEN "Err"
    ELSE IF a = "eof" /\ b = "eof" THEN "Ok"
    ELSE "Pending"

\* faulty variant: the error of a copy loop is returned to the caller
start_result_propagating(joined) == IF joined = "Ok" THEN "Ok" ELSE "Err"

\* the match of ZeroCopyRelay::start on the joined result: Ok(()) in both arms
start_result(joined) == "Ok"

\* the loops and the result of start once loop d has moved to state st; when
\* start returns, the future it has not finished is dropped
Settle(d, st) ==
    LET joined == try_join(st, loop[Other(d)])
    IN  IF joined = "Pending"
        THEN <<[loop EXCEPT ![d] = st], Running>>
        ELSE <<[x \in Dirs |-> IF x = d THEN st
                               ELSE IF loop[x] \in {"read", "write"} THEN "dropped"
                               ELSE loop[x]],
               start_result(joined)>>

\* faulty variant: the unwritten rest of the buffer is discarded
remaining_dropped(buf, n) == <<>>

\* Buf::advance inside write_buf: the first n bytes leave the buffer
remaining_after_write(buf, n) == SubSeq(buf, n + 1, Len(buf))

\* relay_data, line 65 with bytes_read > 0: read_buf moves up to a buffer of
\* the bytes that have arrived into the (empty) buffer
ReadData(d) ==
    /\ relay_result = Running
    /\ loop[d] = "read"
    /\ src[Source(d)] # <<>>
    /\ \E n \in 1..BufCap :
          /\ n <= Len(src[Source(d)])
          /\ buffer' = [buffer EXCEPT ![d] = @ \o SubSeq(src[Source(d)], 1, n)]
          /\ src' = [src EXCEPT ![Source(d)] = SubSeq(@, n + 1, Len(@))]
    /\ loop' = [loop EXCEPT ![d] = "write"]
    /\ UNCHANGED <<payload, to_send, closed, received, relay_result>>
    /\ UNCHANGED <<coreVars, codecVars, connVars, extVars>>

\* relay_data, lines 65-69 and 86-87: a zero-length read, the source has
\* closed and everything it sent has been read; the loop returns Ok(())
ReadEof(d) ==
    /\ relay_result = Running
    /\ loop[d] = "read"
    /\ src[Source(d)] = <<>>
    /\ closed[Source(d)]
    /\ loop' = Settle(d, "eof")[1]
    /\ relay_result' = Settle(d, "eof")[2]
    /\ UNCHANGED <<payload, to_send, closed, src, buffer, received>>
    /\ UNCHANGED <<coreVars, codecVars, connVars, extVars>>

\* relay_data, line 65: read_buf fails and ? returns the error
ReadErr(d) ==
    /\ relay_result = Running
    /\ loop[d] = "read"
    /\ loop' = Settle(d, "err")[1]
    /\ relay_result' = Settle(d, "err")[2]
    /\ UNCHANGED <<payload, to_send, closed, src, buffer, received>>
    /\ UNCHANGED <<coreVars, codecVars, connVars, extVars>>

\* relay_data, lines 74-83: one write_buf call writes a non-empty prefix of
\* the buffer; with the buffer drained the loop clears it and reads again
WriteData(d) ==
    /\ relay_result = Running
    /\ loop[d] = "write"
    /\ \E n \in 1..Len(buffer[d]) :
          /\ received' = [received EXCEPT ![Dest(d)] = @ \o SubSeq(buffer[d], 1, n)]
          /\ buffer' = [buffer EXCEPT ![d] = remaining_after_write(@, n)]
          /\ loop' = [loop EXCEPT ![d] =
                         IF remaining_after_write(buffer[d], n) = <<>> THEN "read" ELSE "write"]
    /\ UNCHANGED <<payload, to_send, closed, src, relay_result>>
    /\ UNCHANGED <<coreVars, codecVars, connVars, extVars>>

\* relay_data, line 75: write_buf fails and ? returns the error
WriteErr(d) ==
    /\ relay_result = Running
    /\ loop[d] = "write"
    /\ loop' = Settle(d, "err")[1]
    /\ relay_result' = Settle(d, "err")[2]
    /\ UNCHANGED <<payload, to_send, closed, src, buffer, received>>
    /\ UNCHANGED <<coreVars, codecVars, connVars, extVars>>

\* a peer sends the next byte of its payload
PeerSend(p) ==
    /\ relay_result = Running
    /\ ~closed[p]
    /\ to_send[p] # <<>>
    /\ src' = [src EXCEPT ![p] = Append(@, Head(to_send[p]))]
    /\ to_send' = [to_send EXCEPT ![p] = Tail(@)]
    /\ UNCHANGED <<payload, closed, buffer, received, loop, relay_result>>
    /\ UNCHANGED <<coreVars, codecVars, connVars, extVars>>

\* a peer that has sent its payload closes its sending side
PeerClose(p) ==
    /\ relay_result = Running
    /\ ~closed[p]
    /\ to_send[p] = <<>>
    /\ closed' = [closed EXCEPT ![p] = TRUE]
    /\ UNCHANGED <<payload, to_send, src, buffer, received, loop, relay_result>>
    /\ UNCHANGED <<coreVars, codecVars, connVars, extVars>>

\* the bytes a peer sends in a run: n distinct bytes
PayloadOf(p, n) == [i \in 1..n |-> IF p = "client" THEN i ELSE 100 + i]

\* ZeroCopyRelay::new and the first poll of start
RelayInit ==
    /\ payload \in {[p \in Peers |-> PayloadOf(p, IF p = "client" THEN n ELSE m)] :
                       n \in 0..MaxPayload, m \in 0..MaxPayload}
    /\ to_send = payload
    /\ closed = [p \in Peers |-> FALSE]
    /\ src = [p \in Peers |-> <<>>]
    /\ buffer = [d \in Dirs |-> <<>>]
    /\ received = [p \in Peers |-> <<>>]
    /\ loop = [d \in Dirs |-> "read"]
    /\ relay_result = Running

RelayIdle ==
    /\ payload = <<>>
    /\ to_send = <<>>
    /\ closed = <<>>
    /\ src = <<>>
    /\ buffer = <<>>
    /\ received = <<>>
    /\ loop = <<>>
    /\ relay_result = "none"

(***************************************************************************)
(* The SOCKS5 wire format (src/protocol.rs).                               *)
(*                                                                         *)
(* A message is a sequence of bytes, 0..255.  An Address is its type byte  *)
(* and its bytes: four octets, sixteen octets, or the bytes of a domain    *)
(* name (a String, so valid UTF-8).  The outcome of a parse is Ok with the *)
(* address and port, Err with the ProxyError variant and its payload, or   *)
(* Panic: the bytes crate's get_u8, get_u16 and copy_to_slice panic when   *)
(* the buffer holds fewer bytes than they take.                            *)
(***************************************************************************)
V4(octets)    == [atyp |-> 1, bytes |-> octets]
Domain(bytes) == [atyp |-> 3, bytes |-> bytes]
V6(octets)    == [atyp |-> 4, bytes |-> octets]
NoAddress     == [atyp |-> 0, bytes |-> <<>>]

ParseOk(address, port) ==
    [kind |-> "Ok", address |-> address, port |-> port, err |-> "none", code |-> 0]
ParseErr(err, code) ==
    [kind |-> "Err", address |-> NoAddress, port |-> 0, err |-> err, code |-> code]
ParsePanic ==
    [kind |-> "Panic", address |-> NoAddress, port |-> 0, err |-> "none", code |-> 0]
ParsePending ==
    [kind |-> "Pending", address |-> NoAddress, port |-> 0, err |-> "none", code |-> 0]

\* byte i of b exists and lies in lo..hi
ByteIn(b, i, lo, hi) == i <= Len(b) /\ b[i] >= lo /\ b[i] <= hi

\* the length of the UTF-8 sequence a byte starts, 0 for a byte that starts none
Utf8SeqLen(c) ==
    IF c < 128 THEN 1
    ELSE IF c >= 194 /\ c <= 223 THEN 2
    ELSE IF c >= 224 /\ c <= 239 THEN 3
    ELSE IF c >= 240 /\ c <= 244 THEN 4
    ELSE 0

IsContinuation(c) == c >= 128 /\ c <= 191

\* the range of the second byte of a sequence, narrowed after E0, ED, F0, F4
SecondLo(c) == IF c = 224 THEN 160 ELSE IF c = 240 THEN 144 ELSE 128
SecondHi(c) == IF c = 237 THEN 159 ELSE IF c = 244 THEN 143 ELSE 191

\* String::from_utf8(..).is_ok(): every byte that is no continuation byte
\* starts a complete sequence, every continuation byte lies inside one
from_utf8_ok(b) ==
    \A i \in 1..Len(b) :
        IF IsContinuation(b[i])
        THEN \E k \in 1..3 :
                 /\ i - k >= 1
                 /\ Utf8SeqLen(b[i - k]) > k
                 /\ \A j \in 1..(k - 1) : IsContinuation(b[i - j])
        ELSE /\ Utf8SeqLen(b[i]) > 0
             /\ Utf8SeqLen(b[i]) > 1 => ByteIn(b, i + 1, SecondLo(b[i]), SecondHi(b[i]))
             /\ \A k \in 2..(Utf8SeqLen(b[i]) - 1) : ByteIn(b, i + k, 128, 191)

\* Buf::get_u16: two bytes, big-endian
get_u16(b) == b[1] * 256 + b[2]

\* faulty variant: the port written low byte first
put_u16_le(port) == <<port % 256, port \div 256>>

\* BufMut::put_u16: two bytes, big-endian
put_u16(port) == <<port \div 256, port % 256>>

\* Address::from_bytes
Address_from_bytes(buf) ==
    IF Len(buf) < 1 THEN ParsePanic
    ELSE LET addr_type == buf[1]
             rest      == Tail(buf)
         IN  IF addr_type = 1
             THEN IF Len(rest) < 6 THEN ParsePanic
                  ELSE ParseOk(V4(SubSeq(rest, 1, 4)), get_u16(SubSeq(rest, 5, 6)))
             ELSE IF addr_type = 3
             THEN IF Len(rest) < 1 THEN ParsePanic
                  ELSE LET len == rest[1]
                       IN  IF Len(rest) - 1 < len THEN ParsePanic
                           ELSE IF ~from_utf8_ok(SubSeq(rest, 2, 1 + len))
                                THEN ParseErr("Protocol", 0)
                           ELSE IF Len(rest) - 1 - len < 2 THEN ParsePanic
                           ELSE ParseOk(Domain(SubSeq(rest, 2, 1 + len)),
                                        get_u16(SubSeq(rest, 2 + len, 3 + len)))
             ELSE IF addr_type = 4
             THEN IF Len(rest) < 18 THEN ParsePanic
                  ELSE ParseOk(V6(SubSeq(rest, 1, 16)), get_u16(SubSeq(rest, 17, 18)))
             ELSE ParseErr("InvalidAddressType", addr_type)

\* Socks5Response::to_bytes; domain.len() as u8 keeps the low eight bits
to_bytes(status, address, port) ==
    <<5, status, 0>>
    \o (IF address.atyp = 3
        THEN <<3, Len(address.bytes) % 256>> \o address.bytes
        ELSE <<address.atyp>> \o address.bytes)
    \o put_u16(port)

(***************************************************************************)
(* Harness of the reply codec: a reply is drawn in the initial state,      *)
(* encoded, and the bytes after its three-byte header are decoded.         *)
(***************************************************************************)
Octets == {0, 127, 255}

\* the bytes of "." and "a" and of the two-byte character U+00E9
DomainBytes == {46, 97, 195, 169}

\* a domain name of the greatest length the length byte can state
LongestDomain == [i \in 1..255 |-> 97]

Addresses ==
    {V4(o) : o \in [1..4 -> Octets]}
    \cup {V6([i \in 1..16 |-> x]) : x \in Octets} \cup {V6([i \in 1..16 |-> i])}
    \cup {Domain(d) : d \in {b \in UNION {[1..k -> DomainBytes] : k \in 1..MaxDomainLen} :
                                from_utf8_ok(b)}}
    \cup {Domain(LongestDomain)}

Ports == {0, 80, 255, 256, 443, 65535}

CodecInit ==
    /\ resp \in [address : Addresses, port : Ports, status : {0, 4}]
    /\ wire = <<>>
    /\ decoded = ParsePending

CodecIdle ==
    /\ resp = [address |-> NoAddress, port |-> 0, status |-> 0]
    /\ wire = <<>>
    /\ decoded = ParsePending

\* Socks5Response::new(status, address, port).to_bytes()
EncodeResponse ==
    /\ wire = <<>>
    /\ wire' = to_bytes(resp.status, resp.address, resp.port)
    /\ UNCHANGED <<resp, decoded>>
    /\ UNCHANGED <<coreVars, relayVars, connVars, extVars>>

\* Address::from_bytes on the bytes after version, status and reserved
DecodeAddress ==
    /\ wire # <<>>
    /\ decoded = ParsePending
    /\ decoded' = Address_from_bytes(SubSeq(wire, 4, Len(wire)))
    /\ UNCHANGED <<resp, wire>>
    /\ UNCHANGED <<coreVars, relayVars, connVars, extVars>>

(***************************************************************************)
(* The SOCKS5 server side: handle_socks5_handshake and                     *)
(* Socks5Request::from_bytes (src/protocol.rs) and                         *)
(* Socks5Proxy::handle_connection (src/proxy.rs).                          *)
(*                                                                         *)
(* greeting and request are the bytes the client sends as its first and    *)
(* second message.  stage is the step handle_connection takes next, done   *)
(* the steps it has entered.  attempts are the messages it has tried to    *)
(* write to the client, sent those whose write succeeded.  conn_result is  *)
(* what the task ends with: Ok, Err with the ProxyError variant, its       *)
(* payload and the stage that failed, or Panic.                            *)
(***************************************************************************)
ReadBufLen == 256

\* stream.read(&mut buf) into a buffer of ReadBufLen bytes, the message whole
\* in the socket: the bytes read
read_into(msg) ==
    SubSeq(msg, 1, IF Len(msg) < ReadBufLen THEN Len(msg) ELSE ReadBufLen)

HandshakeOutcome(reply, err) == [err |-> err, reply |-> reply]

\* handle_socks5_handshake: the reply it writes (none: the empty sequence)
\* and the error it returns once the reply is written (none: Ok)
handle_socks5_handshake(msg) ==
    LET buf == read_into(msg)
        n   == Len(buf)
    IN  IF n < 3 THEN HandshakeOutcome(<<>>, "Protocol")
        ELSE IF buf[1] # 5 THEN HandshakeOutcome(<<>>, "Protocol")
        ELSE LET nmethods == buf[2]
             IN  IF n < 2 + nmethods THEN HandshakeOutcome(<<>>, "Protocol")
                 ELSE IF \E i \in 3..(2 + nmethods) : buf[i] = 0
                      THEN HandshakeOutcome(<<5, 0>>, "none")
                      ELSE HandshakeOutcome(<<5, 255>>, "AuthFailed")

\* faulty variant: every command is let through
any_command(command) == TRUE

\* the command Socks5Request::from_bytes lets through (command != 0x01 fails)
is_connect(command) == command = 1

\* Socks5Request::from_bytes
Socks5Request_from_bytes(buf) ==
    IF Len(buf) < 4 THEN ParseErr("Protocol", 0)
    ELSE IF buf[1] # 5 THEN ParseErr("Protocol", buf[1])
    ELSE IF ~is_connect(buf[2]) THEN ParseErr("UnsupportedCommand", buf[2])
    ELSE Address_from_bytes(SubSeq(buf, 4, Len(buf)))

\* faulty variant: the failure reply carries the success status
failure_reply_with_success_status(address, port) == to_bytes(0, address, port)

\* the reply handle_connection writes when the connect fails (lines 76-77)
failure_reply(address, port) == to_bytes(4, address, port)

\* the reply handle_connection writes once the upstream is connected (86-87)
success_reply(address, port) == to_bytes(0, address, port)

\* faulty variant: the success reply is written before the connect
NextStageReplyFirst(st) ==
    IF st = "handshake" THEN "read_request"
    ELSE IF st = "read_request" THEN "parse"
    ELSE IF st = "parse" THEN "resolve"
    ELSE IF st = "resolve" THEN "route"
    ELSE IF st = "route" THEN "reply"
    ELSE IF st = "reply" THEN "connect"
    ELSE IF st = "connect" THEN "relay"
    ELSE IF st = "relay" THEN "relaying"
    ELSE "closed"

\* the statements of handle_connection, in the order of its body
NextStage(st) ==
    IF st = "handshake" THEN "read_request"
    ELSE IF st = "read_request" THEN "parse"
    ELSE IF st = "parse" THEN "resolve"
    ELSE IF st = "resolve" THEN "route"
    ELSE IF st = "route" THEN "connect"
    ELSE IF st = "connect" THEN "reply"
    ELSE IF st = "reply" THEN "relay"
    ELSE IF st = "relay" THEN "relaying"
    ELSE "closed"

ConnRunning == [kind |-> "Running", err |-> "none", code |-> 0, at |-> "none"]

\* the statement at this stage succeeds: the body goes on
Advances ==
    /\ stage' = NextStage(stage)
    /\ done' = Append(done, stage)
    /\ conn_result' = conn_result

\* the statement at this stage returns Err(err): handle_connection returns it
Fails(err, code) ==
    /\ stage' = "closed"
    /\ done' = Append(done, stage)
    /\ conn_result' = [kind |-> "Err", err |-> err, code |-> code, at |-> stage]

\* the statement at this stage panics: the task unwinds
Panics ==
    /\ stage' = "closed"
    /\ done' = Append(done, stage)
    /\ conn_result' = [kind |-> "Panic", err |-> "none", code |-> 0, at |-> stage]

(***************************************************************************)
(* The outbound connectors and their registry (src/outbound.rs).           *)
(***************************************************************************)
\* what the network does with a dial: the peer accepts it, or it fails
NetOutcomes == {"established", "refused"}

CallOk(sockets)       == [kind |-> "Ok", err |-> "none", sockets |-> sockets]
CallErr(err, sockets) == [kind |-> "Err", err |-> err, sockets |-> sockets]

\* faulty variant: every connector dials the target
OutboundConnector_connect_dialing(connector_kind, net) ==
    IF net = "established" THEN CallOk(1) ELSE CallErr("ConnectionFailed", 1)

\* OutboundConnector::connect of DirectOutbound, Socks5Outbound (the outcome
\* of its whole negotiation in net), BlackholeOutbound and VlessOutbound
OutboundConnector_connect(connector_kind, net) ==
    IF connector_kind = "Blackhole" THEN CallErr("ConnectionFailed", 0)
    ELSE IF connector_kind = "Vless" THEN CallErr("ConnectionFailed", 0)
    ELSE IF net = "established" THEN CallOk(1)
    ELSE CallErr("ConnectionFailed", 1)

\* OutboundManager::from_configs over a configuration with one outbound of
\* each kind
Registry ==
    [direct |-> "Direct", proxy |-> "Socks5", block |-> "Blackhole", future |-> "Vless"]

\* the names a route rule or default_outbound can hold: the configured
\* outbounds and a name no outbound has
OutboundNames == DOMAIN Registry \cup {"ghost"}

\* faulty variant: a name without a connector is served by a direct one
OutboundManager_get_or_direct(name) ==
    IF name \in DOMAIN Registry THEN Registry[name] ELSE "Direct"

\* OutboundManager::get
OutboundManager_get(name) ==
    IF name \in DOMAIN Registry THEN Registry[name] ELSE "None"

\* line 48: handle_socks5_handshake(&mut client_stream).await?
Handshake ==
    /\ stage = "handshake"
    /\ \/ \* stream.read fails
          /\ Fails("Io", 0)
          /\ UNCHANGED <<sent, attempts>>
       \/ LET hs == handle_socks5_handshake(greeting)
          IN  IF hs.reply = <<>>
              THEN /\ Fails(hs.err, 0)
                   /\ UNCHANGED <<sent, attempts>>
              ELSE /\ attempts' = Append(attempts, hs.reply)
                   /\ \/ \* write_all fails
                         /\ sent' = sent
                         /\ Fails("Io", 0)
                      \/ /\ sent' = Append(sent, hs.reply)
                         /\ IF hs.err = "none" THEN Advances ELSE Fails(hs.err, 0)
    /\ UNCHANGED <<greeting, request, target, upstream, outbound_name, connector, dials>>
    /\ UNCHANGED <<coreVars, relayVars, codecVars, extVars>>

\* lines 52-54: the request is read into a buffer of ReadBufLen bytes
ReadRequest(msg) ==
    /\ stage = "read_request"
    /\ \/ /\ request' = read_into(msg)
          /\ Advances
       \/ /\ request' = request
          /\ Fails("Io", 0)
    /\ UNCHANGED <<greeting, sent, attempts, target, upstream, outbound_name, connector, dials>>
    /\ UNCHANGED <<coreVars, relayVars, codecVars, extVars>>

\* line 56: Socks5Request::from_bytes(&mut request_bytes)?
ParseRequest ==
    /\ stage = "parse"
    /\ LET r == Socks5Request_from_bytes(request)
       IN  IF r.kind = "Ok"
           THEN /\ target' = [address |-> r.address, port |-> r.port]
                /\ Advances
           ELSE /\ target' = target
                /\ IF r.kind = "Panic" THEN Panics ELSE Fails(r.err, r.code)
    /\ UNCHANGED <<greeting, request, sent, attempts, upstream, outbound_name, connector, dials>>
    /\ UNCHANGED <<coreVars, relayVars, codecVars, extVars>>

\* line 60: request.address.to_socket_addr_async(request.port).await?; only a
\* domain is resolved, and the resolver may fail
ResolveTarget ==
    /\ stage = "resolve"
    /\ \/ Advances
       \/ /\ target.address.atyp = 3
          /\ Fails("DnsResolution", 0)
    /\ UNCHANGED <<greeting, request, sent, attempts, target, upstream, outbound_name, connector, dials>>
    /\ UNCHANGED <<coreVars, relayVars, codecVars, extVars>>

\* lines 64-70: the router names an outbound (a rule's, or the default one:
\* any name the configuration holds) and the outbound manager is asked for it
SelectOutbound ==
    /\ stage = "route"
    /\ \E name \in OutboundNames :
          LET found == OutboundManager_get(name)
          IN  /\ outbound_name' = name
              /\ IF found = "None"
                 THEN connector' = connector /\ Fails("Protocol", 0)
                 ELSE connector' = found /\ Advances
    /\ UNCHANGED <<greeting, request, sent, attempts, target, upstream, dials>>
    /\ UNCHANGED <<coreVars, relayVars, codecVars, extVars>>

\* lines 72-81: connector.connect(target_addr).await; on Err the failure reply
\* is written, the outcome of the write ignored, and ConnectionFailed returned
ConnectUpstream ==
    /\ stage = "connect"
    /\ \E net \in NetOutcomes :
          LET r == OutboundConnector_connect(connector, net)
          IN  /\ dials' = dials + r.sockets
              /\ IF r.kind = "Ok"
                 THEN /\ upstream' = "connected"
                      /\ Advances
                      /\ UNCHANGED <<sent, attempts>>
                 ELSE /\ upstream' = upstream
                      /\ attempts' = Append(attempts, failure_reply(target.address, target.port))
                      /\ \/ sent' = Append(sent, failure_reply(target.address, target.port))
                         \/ sent' = sent
                      /\ Fails("ConnectionFailed", 0)
    /\ UNCHANGED <<greeting, request, target, outbound_name, connector>>
    /\ UNCHANGED <<coreVars, relayVars, codecVars, extVars>>

\* lines 86-88: the success reply is written
SendSuccessReply ==
    /\ stage = "reply"
    /\ attempts' = Append(attempts, success_reply(target.address, target.port))
    /\ \/ /\ sent' = Append(sent, success_reply(target.address, target.port))
          /\ Advances
       \/ /\ sent' = sent
          /\ Fails("Io", 0)
    /\ UNCHANGED <<greeting, request, target, upstream, outbound_name, connector, dials>>
    /\ UNCHANGED <<coreVars, relayVars, codecVars, extVars>>

\* lines 91-92: the relay takes both streams and starts copying
StartRelay ==
    /\ stage = "relay"
    /\ Advances
    /\ UNCHANGED <<greeting, request, sent, attempts, target, upstream, outbound_name, connector, dials>>
    /\ UNCHANGED <<coreVars, relayVars, codecVars, extVars>>

\* lines 92-95: relay.start().await? returns, whatever the copy loops met
RelayReturns ==
    /\ stage = "relaying"
    /\ \E joined \in {"Ok", "Err"} :
          /\ stage' = "closed"
          /\ done' = done
          /\ conn_result' = IF start_result(joined) = "Ok"
                            THEN [kind |-> "Ok", err |-> "none", code |-> 0, at |-> "none"]
                            ELSE [kind |-> "Err", err |-> "Io", code |-> 0, at |-> "relay"]
    /\ UNCHANGED <<greeting, request, sent, attempts, target, upstream, outbound_name, connector, dials>>
    /\ UNCHANGED <<coreVars, relayVars, codecVars, extVars>>

\* the greeting of a client that offers the listed methods
Greeting(version, methods) == <<version, Len(methods) % 256>> \o methods

\* method lists: short ones, and the longest a greeting can announce
MethodLists ==
    UNION {[1..k -> {0, 2}] : k \in 0..MaxMethods}
    \cup {[i \in 1..254 |-> IF i = 254 THEN 0 ELSE 2],
          [i \in 1..255 |-> IF i = 255 THEN 0 ELSE 2],
          [i \in 1..255 |-> 2]}

\* a message cut one byte short
CutShort(msg) == SubSeq(msg, 1, Len(msg) - 1)

Greetings ==
    LET whole == {Greeting(v, m) : v \in {4, 5}, m \in MethodLists}
    IN  whole \cup {CutShort(g) : g \in whole}

Prefixes(msg) == {SubSeq(msg, 1, k) : k \in 0..Len(msg)}

\* the address part of a request: type byte and address bytes
AddressParts ==
    {<<1, 127, 0, 0, 1>>, <<3, 1, 97>>, <<3, 2, 195, 169>>, <<3, 1, 255>>,
     <<4>> \o [i \in 1..16 |-> i], <<9>>}

\* whole requests, every beginning of one, and a request for the longest domain
Requests ==
    UNION {Prefixes(<<v, c, 0>> \o a \o put_u16(80)) :
              v \in {4, 5}, c \in 1..MaxCommand, a \in AddressParts}
    \cup {<<5, 1, 0, 3, 255>> \o LongestDomain \o put_u16(80)}

\* Socks5Proxy::start, line 32: a task is spawned for an accepted connection
ConnInit ==
    /\ greeting \in Greetings
    /\ request = <<>>
    /\ stage = "handshake"
    /\ done = <<>>
    /\ sent = <<>>
    /\ attempts = <<>>
    /\ target = [address |-> NoAddress, port |-> 0]
    /\ upstream = "none"
    /\ conn_result = ConnRunning
    /\ outbound_name = "none"
    /\ connector = "none"
    /\ dials = 0

ConnIdle ==
    /\ greeting = <<>>
    /\ request = <<>>
    /\ stage = "none"
    /\ done = <<>>
    /\ sent = <<>>
    /\ attempts = <<>>
    /\ target = [address |-> NoAddress, port |-> 0]
    /\ upstream = "none"
    /\ conn_result = ConnRunning
    /\ outbound_name = "none"
    /\ connector = "none"
    /\ dials = 0

(***************************************************************************)
(* The accept loop (src/proxy.rs, Socks5Proxy::start).                     *)
(***************************************************************************)
Conns == 1..MaxConns

\* faulty variant: the error of a connection's task ends the accept loop
after_task_exit_propagating(running, outcome) == running /\ outcome = "Ok"

\* lines 32-36: the spawned task logs the Err of handle_connection; a panic
\* unwinds the task alone; the loop is not told either way
after_task_exit(running, outcome) == running

\* lines 38-40: a failed accept is logged and the loop goes round again
after_accept_error(running) == running

\* failures so far: tasks that ended in an error or a panic, and failed accepts
Failures == Cardinality({c \in Conns : ended[c] \in {"Err", "Panic"}}) + accept_errors

TaskRunning(c) == accepted[c] \notin {"unborn", "closed"}

\* lines 26-36: accept yields a stream and a task is spawned for it
AcceptOk(c) ==
    /\ listening
    /\ accepted[c] = "unborn"
    /\ \A d \in Conns : d < c => accepted[d] # "unborn"
    /\ accepted' = [accepted EXCEPT ![c] = "handshake"]
    /\ seen_at_accept' = [seen_at_accept EXCEPT ![c] = Failures]
    /\ UNCHANGED <<listening, ended, accept_errors>>
    /\ UNCHANGED <<coreVars, relayVars, codecVars, connVars, mcVars, lockVars, obVars, plVars, chunkVars>>

\* lines 38-40: accept returns Err
AcceptErr ==
    /\ listening
    /\ accept_errors < MaxAcceptErrors
    /\ accept_errors' = accept_errors + 1
    /\ listening' = after_accept_error(listening)
    /\ UNCHANGED <<accepted, ended, seen_at_accept>>
    /\ UNCHANGED <<coreVars, relayVars, codecVars, connVars, mcVars, lockVars, obVars, plVars, chunkVars>>

\* one statement of handle_connection succeeds in the task of connection c
TaskAdvance(c) ==
    /\ TaskRunning(c)
    /\ accepted[c] # "relaying"
    /\ accepted' = [accepted EXCEPT ![c] = NextStage(accepted[c])]
    /\ UNCHANGED <<listening, ended, accept_errors, seen_at_accept>>
    /\ UNCHANGED <<coreVars, relayVars, codecVars, connVars, mcVars, lockVars, obVars, plVars, chunkVars>>

\* handle_connection returns in the task of connection c: Err from any
\* statement, a panic from the request parser, Ok once the relay is over
TaskExit(c, outcome) ==
    /\ TaskRunning(c)
    /\ outcome = "Ok" => accepted[c] = "relaying"
    /\ outcome = "Panic" => accepted[c] = "parse"
    /\ accepted' = [accepted EXCEPT ![c] = "closed"]
    /\ ended' = [ended EXCEPT ![c] = outcome]
    /\ listening' = after_task_exit(listening, outcome)
    /\ UNCHANGED <<accept_errors, seen_at_accept>>
    /\ UNCHANGED <<coreVars, relayVars, codecVars, connVars, mcVars, lockVars, obVars, plVars, chunkVars>>

\* line 22: the listener is bound
ListenerInit ==
    /\ listening = TRUE
    /\ accepted = [c \in Conns |-> "unborn"]
    /\ ended = [c \in Conns |-> "none"]
    /\ accept_errors = 0
    /\ seen_at_accept = [c \in Conns |-> 0]

ListenerIdle ==
    /\ listening = FALSE
    /\ accepted = <<>>
    /\ ended = <<>>
    /\ accept_errors = 0
    /\ seen_at_accept = <<>>

(***************************************************************************)
(* Harness of MatchCache (src/routing/cache.rs): a cache of any capacity   *)
(* up to CacheMaxSize, and any sequence of set_domain, set_ip and clear.   *)
(***************************************************************************)
CacheDomains == {<<"a">>, <<"b">>, <<"a", "b">>, <<"b", "a">>}
CacheIps     == {[fam |-> "v4", bits |-> b] : b \in 0..2}

NoCall == [d |-> <<>>, r |-> "None", ip |-> [fam |-> "v4", bits |-> 0], victims |-> {},
           op |-> "none"]

\* MatchCache::new(max_size)
CacheInit ==
    /\ mcache \in {MatchCache_new(m) : m \in 0..CacheMaxSize}
    /\ last_call = NoCall
    /\ ever_set = [d |-> {}, ip |-> {}]

CacheIdle ==
    /\ mcache = <<>>
    /\ last_call = <<>>
    /\ ever_set = <<>>

\* cache.set_domain(d, r)
SetDomain(d, r) ==
    /\ \E victims \in Victims(mcache.domain_cache, mcache.max_size) :
          /\ mcache' = set_domain(mcache, d, r, victims)
          /\ last_call' = [NoCall EXCEPT !.op = "set_domain", !.d = d, !.r = r,
                                         !.victims = victims]
    /\ ever_set' = [ever_set EXCEPT !.d = @ \cup {d}]
    /\ UNCHANGED <<coreVars, relayVars, codecVars, connVars, lsnVars, lockVars, obVars, plVars, chunkVars>>

\* cache.set_ip(ip, r)
SetIp(ip, r) ==
    /\ \E victims \in Victims(mcache.ip_cache, mcache.max_size) :
          /\ mcache' = set_ip(mcache, ip, r, victims)
          /\ last_call' = [NoCall EXCEPT !.op = "set_ip", !.ip = ip, !.r = r,
                                         !.victims = victims]
    /\ ever_set' = [ever_set EXCEPT !.ip = @ \cup {ip}]
    /\ UNCHANGED <<coreVars, relayVars, codecVars, connVars, lsnVars, lockVars, obVars, plVars, chunkVars>>

\* cache.clear()
Clear ==
    /\ mcache' = clear(mcache)
    /\ last_call' = [NoCall EXCEPT !.op = "clear"]
    /\ UNCHANGED ever_set
    /\ UNCHANGED <<coreVars, relayVars, codecVars, connVars, lsnVars, lockVars, obVars, plVars, chunkVars>>

(***************************************************************************)
(* The locks of HighPerformanceRouter (src/routing/router.rs): both caches *)
(* sit behind a std::sync::RwLock.  The lookups modelled here find their   *)
(* key in the decision cache and every matcher already built; lookup[t] is *)
(* the call of thread t: where it stands (pc), what the decision cache     *)
(* holds for its key (hit) and the rule sets it has still to try (left).   *)
(***************************************************************************)
Unlocked == [writer |-> "none", readers |-> {}]

\* RwLock::read returns at once unless a writer holds the lock
CanRead(l) == l.writer = "none"

\* RwLock::write returns at once unless a reader or a writer holds the lock
CanWrite(l) == l.writer = "none" /\ l.readers = {}

LookupIdle == [pc |-> "idle", hit |-> "None", left |-> 0]

\* lines 51 / 74: the call reaches self.match_cache.read()
LookupBegin(t, hit, n) ==
    /\ lookup[t].pc = "idle"
    /\ lookup' = [lookup EXCEPT ![t] = [pc |-> "cache_read", hit |-> hit, left |-> n]]
    /\ UNCHANGED <<matcher_cache_lock, match_cache_lock>>
    /\ UNCHANGED <<coreVars, relayVars, codecVars, connVars, lsnVars, mcVars, obVars, plVars, chunkVars>>

\* lines 51-55: the read guard is taken; it lives to the end of the if let,
\* which a cached Match leaves only by returning from find_matching_outbound_*
AcquireCacheRead(t) ==
    /\ lookup[t].pc = "cache_read"
    /\ CanRead(match_cache_lock)
    /\ match_cache_lock' = [match_cache_lock EXCEPT !.readers = @ \cup {t}]
    /\ lookup' = [lookup EXCEPT ![t].pc =
                      IF lookup[t].hit = "Match" THEN "matcher_write" ELSE "cache_read_end"]
    /\ UNCHANGED matcher_cache_lock
    /\ UNCHANGED <<coreVars, relayVars, codecVars, connVars, lsnVars, mcVars, obVars, plVars, chunkVars>>

\* line 55: a cached NoMatch falls out of the if let and the guard is dropped
ReleaseCacheRead(t) ==
    /\ lookup[t].pc = "cache_read_end"
    /\ match_cache_lock' = [match_cache_lock EXCEPT !.readers = @ \ {t}]
    /\ lookup' = [lookup EXCEPT ![t].pc = "matcher_write"]
    /\ UNCHANGED matcher_cache_lock
    /\ UNCHANGED <<coreVars, relayVars, codecVars, connVars, lsnVars, mcVars, obVars, plVars, chunkVars>>

\* lines 122 / 139: self.matcher_cache.write(), whether or not the matcher
\* is already in the cache
AcquireMatcherWrite(t) ==
    /\ lookup[t].pc = "matcher_write"
    /\ CanWrite(matcher_cache_lock)
    /\ matcher_cache_lock' = [matcher_cache_lock EXCEPT !.writer = t]
    /\ lookup' = [lookup EXCEPT ![t].pc = "in_matcher_cache"]
    /\ UNCHANGED match_cache_lock
    /\ UNCHANGED <<coreVars, relayVars, codecVars, connVars, lsnVars, mcVars, obVars, plVars, chunkVars>>

\* lines 123-132: the matcher is taken from the cache, the guard dropped at
\* the end of the block, the matcher asked; on Match, or after the last rule
\* set, the loops are over
ReleaseMatcherWrite(t, matched) ==
    /\ lookup[t].pc = "in_matcher_cache"
    /\ matcher_cache_lock' = [matcher_cache_lock EXCEPT !.writer = "none"]
    /\ lookup' = [lookup EXCEPT
                     ![t].left = @ - 1,
                     ![t].pc = IF ~matched /\ lookup[t].left > 1 THEN "matcher_write"
                               ELSE IF lookup[t].hit = "Match" THEN "return_found"
                               ELSE "cache_write"]
    /\ UNCHANGED match_cache_lock
    /\ UNCHANGED <<coreVars, relayVars, codecVars, connVars, lsnVars, mcVars, obVars, plVars, chunkVars>>

\* line 53 / 76: find_matching_outbound_* has returned; the call returns and
\* the read guard of line 51 / 74 is dropped
ReturnFound(t) ==
    /\ lookup[t].pc = "return_found"
    /\ match_cache_lock' = [match_cache_lock EXCEPT !.readers = @ \ {t}]
    /\ lookup' = [lookup EXCEPT ![t] = LookupIdle]
    /\ UNCHANGED matcher_cache_lock
    /\ UNCHANGED <<coreVars, relayVars, codecVars, connVars, lsnVars, mcVars, obVars, plVars, chunkVars>>

\* lines 61 / 67 (84 / 90): self.match_cache.write()
AcquireCacheWrite(t) ==
    /\ lookup[t].pc = "cache_write"
    /\ CanWrite(match_cache_lock)
    /\ match_cache_lock' = [match_cache_lock EXCEPT !.writer = t]
    /\ lookup' = [lookup EXCEPT ![t].pc = "in_match_cache"]
    /\ UNCHANGED matcher_cache_lock
    /\ UNCHANGED <<coreVars, relayVars, codecVars, connVars, lsnVars, mcVars, obVars, plVars, chunkVars>>

\* lines 61-62 / 67-68: set_domain / set_ip ran, the guard is dropped at the
\* end of the statement and the call returns
ReleaseCacheWrite(t) ==
    /\ lookup[t].pc = "in_match_cache"
    /\ match_cache_lock' = [match_cache_lock EXCEPT !.writer = "none"]
    /\ lookup' = [lookup EXCEPT ![t] = LookupIdle]
    /\ UNCHANGED matcher_cache_lock
    /\ UNCHANGED <<coreVars, relayVars, codecVars, connVars, lsnVars, mcVars, obVars, plVars, chunkVars>>

\* HighPerformanceRouter::new: both locks free, no call in progress
LocksInit ==
    /\ matcher_cache_lock = Unlocked
    /\ match_cache_lock = Unlocked
    /\ lookup = [t \in Threads |-> LookupIdle]

LocksIdle ==
    /\ matcher_cache_lock = <<>>
    /\ match_cache_lock = <<>>
    /\ lookup = <<>>

(***************************************************************************)
(* The protocol variants (src/protocols/).                                 *)
(***************************************************************************)
\* DirectProtocol, Socks5Protocol::new and ::with_server, VlessProtocol,
\* BlackholeProtocol, TproxyProtocol
Protocols ==
    {[kind |-> k, server_addr |-> FALSE] : k \in {"direct", "socks5", "vless", "blackhole", "tproxy"}}
    \cup {[kind |-> "socks5", server_addr |-> TRUE]}

\* Protocol::connect_outbound of each variant; net is what the dial meets
connect_outbound(p, net) ==
    IF p.kind = "direct"
    THEN IF net = "established" THEN CallOk(1) ELSE CallErr("ConnectionFailed", 1)
    ELSE IF p.kind = "socks5"
    THEN IF ~p.server_addr THEN CallErr("Protocol", 0)
         ELSE IF net = "established" THEN CallOk(1)
         ELSE CallErr("ConnectionFailed", 1)
    ELSE IF p.kind = "blackhole" THEN CallErr("ConnectionFailed", 0)
    ELSE CallErr("Protocol", 0)

\* Protocol::start_inbound of each variant; tcp and udp are what the bind of
\* the listener and of the datagram socket meet, on_linux the build target
start_inbound(p, on_linux, tcp, udp) ==
    IF p.kind = "socks5"
    THEN IF tcp = "established"
         THEN [kind |-> "Serving", err |-> "none", sockets |-> 1]
         ELSE CallErr("Io", 1)
    ELSE IF p.kind = "tproxy" /\ on_linux
    THEN IF tcp /= "established" THEN CallErr("Io", 1)
         ELSE IF udp /= "established" THEN CallErr("Io", 2)
         ELSE CallOk(2)
    ELSE CallErr("Protocol", 0)

NotCalled == [r |-> CallErr("none", 0), op |-> "none"]

ConnectOutbound(net) ==
    /\ proto_call = NotCalled
    /\ proto_call' = [r |-> connect_outbound(protocol, net), op |-> "connect_outbound"]
    /\ UNCHANGED <<protocol, linux, s5Vars>>
    /\ UNCHANGED <<coreVars, relayVars, codecVars, connVars, lsnVars, mcVars, lockVars, plVars, chunkVars>>

StartInbound(tcp, udp) ==
    /\ proto_call = NotCalled
    /\ proto_call' = [r |-> start_inbound(protocol, linux, tcp, udp), op |-> "start_inbound"]
    /\ UNCHANGED <<protocol, linux, s5Vars>>
    /\ UNCHANGED <<coreVars, relayVars, codecVars, connVars, lsnVars, mcVars, lockVars, plVars, chunkVars>>

ProtoInit ==
    /\ protocol \in Protocols
    /\ linux \in BOOLEAN
    /\ proto_call = NotCalled

ProtoIdle ==
    /\ protocol = [kind |-> "none", server_addr |-> FALSE]
    /\ linux = FALSE
    /\ proto_call = NotCalled

(***************************************************************************)
(* The SOCKS5 outbound (src/outbound.rs, Socks5Outbound::connect; the same *)
(* statements are in src/protocols/socks5.rs, connect_outbound).           *)
(***************************************************************************)
S5Ok(consumed)       == [kind |-> "Ok", err |-> "none", consumed |-> consumed]
S5Err(err, consumed) == [kind |-> "Err", err |-> err, consumed |-> consumed]

\* faulty variant: the length byte of a bound domain is taken for the whole
\* address
to_read_without_domain(atyp, len_byte) ==
    IF atyp = 1 THEN 4 ELSE IF atyp = 4 THEN 16 ELSE 0

\* line 62: the bytes of the bound address that follow the header (and, for
\* a domain, its length byte)
to_read(atyp, len_byte) ==
    IF atyp = 1 THEN 4
    ELSE IF atyp = 4 THEN 16
    ELSE IF atyp = 3 THEN len_byte
    ELSE 0

\* lines 29-68 over the bytes the server sends on the stream: read_exact
\* fails when the stream ends before the buffer is full; net is what the dial
\* and the writes meet
Socks5Outbound_connect(net, stream) ==
    IF net = "refused" THEN S5Err("ConnectionFailed", 0)
    ELSE IF net = "reset" THEN S5Err("Io", 0)
    ELSE IF Len(stream) < 2 THEN S5Err("Io", Len(stream))
    ELSE IF SubSeq(stream, 1, 2) /= <<5, 0>> THEN S5Err("Protocol", 2)
    ELSE IF Len(stream) < 6 THEN S5Err("Io", Len(stream))
    ELSE LET head == SubSeq(stream, 3, 6)
         IN  IF head[2] /= 0 THEN S5Err("ConnectionFailed", 6)
             ELSE IF head[4] = 3 /\ Len(stream) < 7 THEN S5Err("Io", Len(stream))
             ELSE LET addr_at == IF head[4] = 3 THEN 7 ELSE 6
                      n == to_read(head[4], IF head[4] = 3 THEN stream[7] ELSE 0)
                  IN  IF Len(stream) < addr_at + n + 2
                      THEN S5Err("Io", Len(stream))
                      ELSE S5Ok(addr_at + n + 2)

\* what a server answers to the greeting: a method selection, whole or cut
MethodReplies == {<<5, 0>>, <<5, 255>>, <<5, 2>>, <<4, 0>>, <<5>>, <<>>}

\* the bound address of a reply: type byte and address bytes
BoundAddresses ==
    {<<1, 10, 0, 0, 1>>, <<3, 0>>, <<3, 1, 97>>, <<3, 2, 5, 0>>,
     <<4>> \o [i \in 1..16 |-> i]}

ReplyStatuses == {0, 1, 5}

\* the version byte a server puts in its reply
ReplyVersions == {4, 5}

\* whole CONNECT replies
S5Replies ==
    {<<v, st, 0>> \o a \o put_u16(80) :
        v \in ReplyVersions, st \in ReplyStatuses, a \in BoundAddresses}

\* the first bytes of the tunnelled stream
TunnelPayloads == {<<>>, <<5, 0>>, <<72, 84, 84, 80>>}

\* a server sends a method selection, then a reply, then the target's bytes;
\* one that stops early sends nothing after
ServerScripts ==
    {[payload |-> p, reply |-> r, method |-> m] :
        m \in MethodReplies, r \in S5Replies, p \in TunnelPayloads}
    \cup {[payload |-> <<>>, reply |-> CutShort(r), method |-> m] :
            m \in MethodReplies, r \in S5Replies}
    \cup {[payload |-> <<>>, reply |-> SubSeq(r, 1, 3), method |-> m] :
            m \in MethodReplies, r \in S5Replies}

Stream(script) == script.method \o script.reply \o script.payload

S5NotCalled == [r |-> S5Err("none", 0), net |-> "none", op |-> "none"]

Socks5Connect(net) ==
    /\ s5_call.op = "none"
    /\ s5_call' = [r |-> Socks5Outbound_connect(net, Stream(server_script)), net |-> net,
                   op |-> "connect"]
    /\ UNCHANGED <<server_script, to_client, protoVars>>
    /\ UNCHANGED <<coreVars, relayVars, codecVars, connVars, lsnVars, mcVars, lockVars, plVars, chunkVars>>

\* proxy.rs 91-92: the stream connect returned is relayed; what the server
\* sent and connect did not read goes to the client
RelayFromUpstream ==
    /\ s5_call.op = "connect"
    /\ s5_call.r.kind = "Ok"
    /\ s5_call' = [s5_call EXCEPT !.op = "relaying"]
    /\ to_client' = SubSeq(Stream(server_script), s5_call.r.consumed + 1,
                           Len(Stream(server_script)))
    /\ UNCHANGED <<server_script, protoVars>>
    /\ UNCHANGED <<coreVars, relayVars, codecVars, connVars, lsnVars, mcVars, lockVars, plVars, chunkVars>>

S5Init ==
    /\ server_script \in ServerScripts
    /\ s5_call = S5NotCalled
    /\ to_client = <<>>

S5Idle ==
    /\ server_script = <<>>
    /\ s5_call = S5NotCalled
    /\ to_client = <<>>

ObIdle == ProtoIdle /\ S5Idle

\* a connection whose target is parsed and resolved: the state handle_connection
\* is in at line 64
RoutedInit ==
    /\ greeting \in {g \in Greetings : handle_socks5_handshake(g).err = "none"}
    /\ \E a \in AddressParts :
          /\ request = read_into(<<5, 1, 0>> \o a \o put_u16(80))
          /\ Socks5Request_from_bytes(request).kind = "Ok"
          /\ target = [address |-> Socks5Request_from_bytes(request).address,
                       port |-> Socks5Request_from_bytes(request).port]
    /\ stage = "route"
    /\ done = <<"handshake", "read_request", "parse", "resolve">>
    /\ sent = <<handle_socks5_handshake(greeting).reply>>
    /\ attempts = sent
    /\ upstream = "none"
    /\ conn_result = ConnRunning
    /\ outbound_name = "none"
    /\ connector = "none"
    /\ dials = 0

(***************************************************************************)
(* The write lock of the pool's lists and the admission semaphore          *)
(* (src/connection_pool.rs): caller[t] is the call of t on the pool and    *)
(* where it stands in it.                                                  *)
(***************************************************************************)
PoolCallers == Tasks \cup {"sweeper"}

PoolOps(t) == IF t = "sweeper" THEN {"cleanup_expired"}
              ELSE {"get_connection", "return_connection"}

CallerIdle == [pc |-> "idle", op |-> "none"]

\* faulty variant: the guard taken in get_from_pool lives on in get_connection
after_get_from_pool_kept(holder) == holder

\* line 142: get_from_pool returns and its guard `pools` is dropped
after_get_from_pool(holder) == "none"

\* get_connection (line 81), return_connection (line 115) or cleanup_expired
\* (line 146) reaches self.pools.write().await
PoolCall(t, op) ==
    /\ caller[t].pc = "idle"
    /\ caller' = [caller EXCEPT ![t] = [pc |-> "lock_wait", op |-> op]]
    /\ UNCHANGED <<pools_lock, available_permits>>
    /\ UNCHANGED <<coreVars, relayVars, codecVars, connVars, lsnVars, mcVars, lockVars,
                   obVars, chunkVars>>

\* the write guard is granted when no other task holds it
PoolLock(t) ==
    /\ caller[t].pc = "lock_wait"
    /\ pools_lock = "none"
    /\ pools_lock' = t
    /\ caller' = [caller EXCEPT ![t].pc = "locked"]
    /\ UNCHANGED available_permits
    /\ UNCHANGED <<coreVars, relayVars, codecVars, connVars, lsnVars, mcVars, lockVars,
                   obVars, chunkVars>>

\* the function that took the guard returns: get_from_pool with a connection
\* (get_connection returns it, line 83) or with None (get_connection goes on
\* to the semaphore, line 88); return_connection; cleanup_expired
PoolUnlock(t, found) ==
    /\ caller[t].pc = "locked"
    /\ pools_lock = t
    /\ pools_lock' = IF caller[t].op = "get_connection"
                     THEN after_get_from_pool(pools_lock) ELSE "none"
    /\ caller' = [caller EXCEPT ![t] =
                      IF caller[t].op = "get_connection" /\ ~found
                      THEN [pc |-> "acquire", op |-> "get_connection"]
                      ELSE CallerIdle]
    /\ UNCHANGED available_permits
    /\ UNCHANGED <<coreVars, relayVars, codecVars, connVars, lsnVars, mcVars, lockVars,
                   obVars, chunkVars>>

\* line 88: semaphore.acquire().await is granted when a permit is left
PoolAcquire(t) ==
    /\ caller[t].pc = "acquire"
    /\ available_permits > 0
    /\ available_permits' = available_permits - 1
    /\ caller' = [caller EXCEPT ![t].pc = "dial"]
    /\ UNCHANGED pools_lock
    /\ UNCHANGED <<coreVars, relayVars, codecVars, connVars, lsnVars, mcVars, lockVars,
                   obVars, chunkVars>>

\* lines 91-98: the dial ends, get_connection returns and _permit is dropped
PoolDialEnds(t) ==
    /\ caller[t].pc = "dial"
    /\ available_permits' = PermitsAfterReturn(available_permits)
    /\ caller' = [caller EXCEPT ![t] = CallerIdle]
    /\ UNCHANGED pools_lock
    /\ UNCHANGED <<coreVars, relayVars, codecVars, connVars, lsnVars, mcVars, lockVars,
                   obVars, chunkVars>>

\* ConnectionPool::new
PoolLockInit ==
    /\ pools_lock = "none"
    /\ available_permits = max_total_connections
    /\ caller = [t \in PoolCallers |-> CallerIdle]

PoolLockIdle ==
    /\ pools_lock = "none"
    /\ available_permits = 0
    /\ caller = <<>>

(***************************************************************************)
(* The reads of handle_connection over a stream of bytes (src/proxy.rs     *)
(* 48-54, src/protocol.rs 149-150): the client sends a greeting and a      *)
(* request; a read returns the bytes that have arrived, at most ReadBufLen. *)
(***************************************************************************)
\* greetings the handshake accepts when read whole
WellFormedGreetings == {g \in Greetings : handle_socks5_handshake(g).err = "none"}

\* CONNECT requests for each address type, and for the longest domain
WellFormedRequests ==
    {<<5, 1, 0>> \o a \o put_u16(80) :
        a \in {p \in AddressParts :
                 Socks5Request_from_bytes(<<5, 1, 0>> \o p \o put_u16(80)).kind = "Ok"}}
    \cup {<<5, 1, 0, 3, 255>> \o LongestDomain \o put_u16(80)}

\* the sizes a read of the bytes arrived can have: all of them, all but one,
\* one, four, or a message's length
ReadSizes(arrived, msg_len) ==
    {k \in {Len(arrived), Len(arrived) - 1, 1, 4, msg_len, msg_len - 1, msg_len + 1} :
        k >= 1 /\ k <= Len(arrived) /\ k <= ReadBufLen}

\* lines 52-54 on a stream: read returns some of the bytes not yet read, or
\* nothing when the client has closed with none left
ReadRequestChunk(k) ==
    /\ stage = "read_request"
    /\ IF pending = <<>>
       THEN /\ k = 0
            /\ request' = <<>>
            /\ pending' = pending
       ELSE /\ k \in ReadSizes(pending, Len(client_msgs.request))
            /\ request' = SubSeq(pending, 1, k)
            /\ pending' = SubSeq(pending, k + 1, Len(pending))
    /\ Advances
    /\ UNCHANGED <<greeting, sent, attempts, target, upstream, outbound_name, connector, dials>>
    /\ UNCHANGED client_msgs
    /\ UNCHANGED <<coreVars, relayVars, codecVars, lsnVars, mcVars, lockVars, obVars, plVars>>

\* the accepted connection of a client that sends a greeting and a request;
\* the first read, that of the handshake, has returned `greeting`
ChunksInit ==
    /\ client_msgs \in [greeting : WellFormedGreetings, request : WellFormedRequests]
    /\ \E k \in ReadSizes(client_msgs.greeting \o client_msgs.request,
                           Len(client_msgs.greeting)) :
          /\ greeting = SubSeq(client_msgs.greeting \o client_msgs.request, 1, k)
          /\ pending = SubSeq(client_msgs.greeting \o client_msgs.request, k + 1,
                              Len(client_msgs.greeting) + Len(client_msgs.request))
    /\ request = <<>>
    /\ stage = "handshake"
    /\ done = <<>>
    /\ sent = <<>>
    /\ attempts = <<>>
    /\ target = [address |-> NoAddress, port |-> 0]
    /\ upstream = "none"
    /\ conn_result = ConnRunning
    /\ outbound_name = "none"
    /\ connector = "none"
    /\ dials = 0

ChunksIdle ==
    /\ client_msgs = <<>>
    /\ pending = <<>>

ExtIdle == ListenerIdle /\ CacheIdle /\ LocksIdle /\ ObIdle /\ PoolLockIdle /\ ChunksIdle

NetIdle == RelayIdle /\ CodecIdle /\ ConnIdle /\ ExtIdle

(***************************************************************************)
(* Specifications.                                                         *)
(***************************************************************************)
InitDomainMatcher == DmInit /\ ImIdle /\ PoolIdle /\ RouterIdle /\ NetIdle
NextDomainMatcher == MatchDomain \/ LegacySelectDomain
SpecDomainMatcher == InitDomainMatcher /\ [][NextDomainMatcher]_vars

InitDomainMatcherAll == DmInitAll /\ ImIdle /\ PoolIdle /\ RouterIdle /\ NetIdle
SpecDomainMatcherAll == InitDomainMatcherAll /\ [][NextDomainMatcher]_vars

InitIpMatcher == DmIdle /\ ImInit /\ PoolIdle /\ RouterIdle /\ NetIdle
NextIpMatcher == MatchIp
SpecIpMatcher == InitIpMatcher /\ [][NextIpMatcher]_vars

InitPool == DmIdle /\ ImIdle /\ PoolInit /\ RouterIdle /\ NetIdle
NextPool ==
    \/ \E t \in Tasks : \E a \in Targets : GetFromPool(t, a)
    \/ \E t \in Tasks : AcquirePermit(t)
    \/ \E t \in Tasks : ConnectOk(t)
    \/ \E t \in Tasks : ConnectFailed(t)
    \/ \E t \in Tasks : \E c \in held[t] : ReturnConnection(t, c)
    \/ \E t \in Tasks : \E c \in held[t] : IntoStream(t, c)
    \/ CleanupExpired
    \/ Tick
SpecPool == InitPool /\ [][NextPool]_vars

InitRouter == DmIdle /\ ImIdle /\ PoolIdle /\ RouterInit /\ NetIdle
NextRouter ==
    \/ \E t \in Threads : \E d \in DomainKeys : BeginSelect(t, DomainKey(d))
    \/ \E t \in Threads : \E ip \in IpKeys : BeginSelect(t, IpKey(ip))
    \/ \E t \in Threads : EvalRuleSet(t)
    \/ \E t \in Threads : StoreResult(t)
    \/ \E t \in Threads : FinishCall(t)
    \/ ClearCache
SpecRouter == InitRouter /\ [][NextRouter]_vars

NextRouterReplace ==
    \/ \E t \in Threads : \E d \in DomainKeys : BeginSelect(t, DomainKey(d))
    \/ \E t \in Threads : \E ip \in IpKeys : BeginSelect(t, IpKey(ip))
    \/ \E t \in Threads : EvalRuleSet(t)
    \/ \E t \in Threads : StoreResult(t)
    \/ \E t \in Threads : FinishCall(t)
    \/ ClearCache
    \/ \E m \in {InitialManager, ReplacedManager} : SetRuleManager(m)
SpecRouterReplace == InitRouter /\ [][NextRouterReplace]_vars

InitRuleSets == DmIdle /\ ImIdle /\ PoolIdle /\ RuleSetsInit /\ NetIdle
NextRuleSets ==
    \/ \E set \in DomainSetInputs : AddDomainSet(set)
    \/ \E set \in IpSetInputs : AddIpSet(set)
SpecRuleSets == InitRuleSets /\ [][NextRuleSets]_vars

InitRouterMalformed == DmIdle /\ ImIdle /\ PoolIdle /\ RouterInitMalformed /\ NetIdle
SpecRouterMalformed == InitRouterMalformed /\ [][NextRouter]_vars

InitRelay == DmIdle /\ ImIdle /\ PoolIdle /\ RouterIdle /\ RelayInit /\ CodecIdle /\ ConnIdle /\ ExtIdle
NextRelay ==
    \/ \E d \in Dirs : ReadData(d)
    \/ \E d \in Dirs : ReadEof(d)
    \/ \E d \in Dirs : ReadErr(d)
    \/ \E d \in Dirs : WriteData(d)
    \/ \E d \in Dirs : WriteErr(d)
    \/ \E p \in Peers : PeerSend(p)
    \/ \E p \in Peers : PeerClose(p)
SpecRelay == InitRelay /\ [][NextRelay]_vars


InitCodec == DmIdle /\ ImIdle /\ PoolIdle /\ RouterIdle /\ RelayIdle /\ CodecInit /\ ConnIdle /\ ExtIdle
NextCodec == EncodeResponse \/ DecodeAddress
SpecCodec == InitCodec /\ [][NextCodec]_vars

InitListener == ListenerInit /\ DmIdle /\ ImIdle /\ PoolIdle /\ RouterIdle
                /\ RelayIdle /\ CodecIdle /\ ConnIdle /\ CacheIdle /\ LocksIdle /\ ObIdle
             /\ PoolLockIdle /\ ChunksIdle
NextListener ==
    \/ \E c \in Conns : AcceptOk(c)
    \/ AcceptErr
    \/ \E c \in Conns : TaskAdvance(c)
    \/ \E c \in Conns : \E outcome \in {"Ok", "Err", "Panic"} : TaskExit(c, outcome)
SpecListener == InitListener /\ [][NextListener]_vars

InitCache == CacheInit /\ DmIdle /\ ImIdle /\ PoolIdle /\ RouterIdle
             /\ RelayIdle /\ CodecIdle /\ ConnIdle /\ ListenerIdle /\ LocksIdle /\ ObIdle
             /\ PoolLockIdle /\ ChunksIdle
NextCache ==
    \/ \E d \in CacheDomains : \E r \in MatcherResult : SetDomain(d, r)
    \/ \E ip \in CacheIps : \E r \in MatcherResult : SetIp(ip, r)
    \/ Clear
SpecCache == InitCache /\ [][NextCache]_vars

InitLocks == LocksInit /\ DmIdle /\ ImIdle /\ PoolIdle /\ RouterIdle
             /\ RelayIdle /\ CodecIdle /\ ConnIdle /\ ListenerIdle /\ CacheIdle /\ ObIdle
             /\ PoolLockIdle /\ ChunksIdle
NextLocks ==
    \/ \E t \in Threads : \E hit \in MatcherResult : \E n \in 1..(MaxRules + 1) :
          LookupBegin(t, hit, n)
    \/ \E t \in Threads : AcquireCacheRead(t)
    \/ \E t \in Threads : ReleaseCacheRead(t)
    \/ \E t \in Threads : AcquireMatcherWrite(t)
    \/ \E t \in Threads : \E matched \in BOOLEAN : ReleaseMatcherWrite(t, matched)
    \/ \E t \in Threads : ReturnFound(t)
    \/ \E t \in Threads : AcquireCacheWrite(t)
    \/ \E t \in Threads : ReleaseCacheWrite(t)
SpecLocks == InitLocks /\ [][NextLocks]_vars

InitConnection == DmIdle /\ ImIdle /\ PoolIdle /\ RouterIdle /\ RelayIdle /\ CodecIdle /\ ConnInit /\ ExtIdle
NextConnection ==
    \/ Handshake
    \/ \E msg \in Requests : ReadRequest(msg)
    \/ ParseRequest
    \/ ResolveTarget
    \/ SelectOutbound
    \/ ConnectUpstream
    \/ SendSuccessReply
    \/ StartRelay
    \/ RelayReturns
SpecConnection == InitConnection /\ [][NextConnection]_vars

\* the protocol variants called on their own, and a connection from its
\* routing on
InitOutbound == DmIdle /\ ImIdle /\ PoolIdle /\ RouterIdle /\ RelayIdle /\ CodecIdle
                /\ RoutedInit /\ ListenerIdle /\ CacheIdle /\ LocksIdle
                /\ ProtoInit /\ S5Idle /\ PoolLockIdle /\ ChunksIdle
NextOutbound ==
    \/ \E net \in NetOutcomes : ConnectOutbound(net)
    \/ \E tcp \in NetOutcomes : \E udp \in NetOutcomes : StartInbound(tcp, udp)
    \/ SelectOutbound
    \/ ConnectUpstream
    \/ SendSuccessReply
    \/ StartRelay
    \/ RelayReturns
SpecOutbound == InitOutbound /\ [][NextOutbound]_vars

InitSocks5Outbound == DmIdle /\ ImIdle /\ PoolIdle /\ RouterIdle /\ RelayIdle /\ CodecIdle
                      /\ ConnIdle /\ ListenerIdle /\ CacheIdle /\ LocksIdle
                      /\ ProtoIdle /\ S5Init /\ PoolLockIdle /\ ChunksIdle
NextSocks5Outbound ==
    \/ \E net \in NetOutcomes \cup {"reset"} : Socks5Connect(net)
    \/ RelayFromUpstream
SpecSocks5Outbound == InitSocks5Outbound /\ [][NextSocks5Outbound]_vars

InitPoolLock == DmIdle /\ ImIdle /\ PoolIdle /\ RouterIdle /\ RelayIdle /\ CodecIdle
                /\ ConnIdle /\ ListenerIdle /\ CacheIdle /\ LocksIdle /\ ObIdle
                /\ PoolLockInit /\ ChunksIdle
NextPoolLock ==
    \/ \E t \in PoolCallers : \E op \in PoolOps(t) : PoolCall(t, op)
    \/ \E t \in PoolCallers : PoolLock(t)
    \/ \E t \in PoolCallers : \E found \in BOOLEAN : PoolUnlock(t, found)
    \/ \E t \in PoolCallers : PoolAcquire(t)
    \/ \E t \in PoolCallers : PoolDialEnds(t)
SpecPoolLock == InitPoolLock /\ [][NextPoolLock]_vars

InitChunks == DmIdle /\ ImIdle /\ PoolIdle /\ RouterIdle /\ RelayIdle /\ CodecIdle
              /\ ChunksInit /\ ListenerIdle /\ CacheIdle /\ LocksIdle /\ ObIdle
              /\ PoolLockIdle
NextChunks ==
    \/ Handshake
    \/ \E k \in 0..ReadBufLen : ReadRequestChunk(k)
    \/ ParseRequest
    \/ ResolveTarget
    \/ SelectOutbound
    \/ ConnectUpstream
    \/ SendSuccessReply
    \/ StartRelay
    \/ RelayReturns
SpecChunks == InitChunks /\ [][NextChunks]_vars

(***************************************************************************)
(* Properties.                                                             *)
(***************************************************************************)
IdleCount == Cardinality(PooledIdle)

\* C1: in every reachable state of the pool, the connections issued to
\* callers plus the idle connections held in the pool number at most
\* max_total_connections.
C1_IssuedPlusIdleWithinMaxTotal ==
    Cardinality(Issued) + IdleCount <= max_total_connections

\* C2: once max_total_connections connections have been dialed and none of
\* them has been released, no further get_connection completes a dial before
\* a release.
C2_NoDialBeyondAdmissionUntilRelease ==
    [][(Cardinality(Issued) = next_conn /\ next_conn >= max_total_connections)
          => next_conn' = next_conn]_vars

\* C3: for a rule set whose only criterion is the suffix s, DomainMatcher::matches(d)
\* is Match exactly when d = s or d ends with "." followed by s.
C3_SuffixMatchIffEqualOrDotSuffix ==
    dm_result # Pending =>
        LET s == dm_set.domain_suffix[1]
        IN  (dm_result = "Match") <=> (dm_domain = s \/ EndsWith(dm_domain, <<".">> \o s))

\* network containment of an address in a CIDR
NetContains(net, ip) ==
    /\ net.fam = ip.fam
    /\ ip.bits \div Pow2(IPBits - net.prefix_len) = net.addr \div Pow2(IPBits - net.prefix_len)

\* C4: IpMatcher::matches(ip) is Match exactly when ip lies in the network
\* range of at least one configured CIDR, for every prefix length.
C4_IpMatchIffContainedInSomeCidr ==
    im_result # Pending =>
        ((im_result = "Match") <=> \E i \in 1..Len(im_cidrs) : NetContains(im_cidrs[i], im_ip))

\* the verdict of a rule set's matcher, compiled from the content the rule
\* manager holds for the id, on a key
RuleSetMatchesKey(id, key) ==
    IF key.kind = "domain"
    THEN /\ id \in DOMAIN rule_manager.domain_sets
         /\ LET set == rule_manager.domain_sets[id]
                m   == DomainMatcher_new(set.domain, set.domain_suffix,
                                         set.domain_keyword, set.domain_regex)
            IN  m.ok /\ DomainMatcher_matches(m, key.v) = "Match"
    ELSE /\ id \in DOMAIN rule_manager.ip_sets
         /\ IpMatcher_matches(IpMatcher_new(rule_manager.ip_sets[id].ip_cidr), key.v) = "Match"

RuleMatchesKey(rule, key) ==
    \E i \in 1..Len(rule.rule_sets) : RuleSetMatchesKey(rule.rule_sets[i], key)

Returned(t) == call[t].pc = "done"

SameKey(c, d) == c.key.kind = d.key.kind /\ c.key.v = d.key.v

\* C5: select_outbound returns the outbound of the lowest-index rule that
\* matches the key, whether or not the key was in the decision cache.
C5_FirstMatchingRuleWins ==
    \A t \in Threads :
        Returned(t) =>
            \A i \in 1..Len(rules) :
                (/\ RuleMatchesKey(rules[i], call[t].key)
                 /\ \A j \in 1..(i - 1) : ~RuleMatchesKey(rules[j], call[t].key))
                => call[t].out = rules[i].outbound

\* a call served with the key cached as Match returned the first of two
\* matching rules with different outbounds
C5_Witness ==
    \E t \in Threads :
        /\ Returned(t)
        /\ call[t].hit = "Match"
        /\ Len(rules) = 2
        /\ RuleMatchesKey(rules[1], call[t].key)
        /\ RuleMatchesKey(rules[2], call[t].key)
        /\ rules[1].outbound # rules[2].outbound
        /\ call[t].out = rules[1].outbound

\* C6: for a key that no rule matches, select_outbound_for_domain /
\* select_outbound_for_ip returns the configured default outbound.
C6_DefaultWhenNoRuleMatches ==
    \A t \in Threads :
        (Returned(t) /\ \A i \in 1..Len(rules) : ~RuleMatchesKey(rules[i], call[t].key))
            => call[t].out = default_outbound

\* a call walked a non-empty rule list, matched nothing and returned the default
C6_Witness ==
    \E t \in Threads :
        /\ Returned(t)
        /\ Len(rules) > 0
        /\ call[t].walked
        /\ \A i \in 1..Len(rules) : ~RuleMatchesKey(rules[i], call[t].key)
        /\ call[t].out = default_outbound

\* C7: with rules and rule sets unchanged, two calls of select_outbound with
\* the same key return the same outbound, whatever lookups, insertions,
\* evictions and clears happened between them.
C7_SameKeySameOutbound ==
    \A t \in Threads : \A u \in Threads :
        (Returned(t) /\ Returned(u) /\ SameKey(call[t], call[u]))
            => call[t].out = call[u].out

\* two calls for one key, one served on a cache miss and one on a cached
\* Match, returned the same rule's outbound
C7_Witness ==
    \E t \in Threads : \E u \in Threads :
        /\ Returned(t) /\ Returned(u)
        /\ SameKey(call[t], call[u])
        /\ call[t].hit = "None" /\ call[u].hit = "Match"
        /\ call[t].out = call[u].out
        /\ call[t].out # default_outbound

\* C8: the outbound select_outbound returns for a key after clear_cache is
\* the outbound it returned for that key before clear_cache.
C8_ClearCachePreservesResults ==
    \A t \in Threads : \A u \in Threads :
        (/\ Returned(t) /\ Returned(u)
         /\ t \in after_clear[u].post
         /\ SameKey(call[t], call[u]))
            => call[u].out = call[t].out

\* a call answered from a cached Match, then clear_cache, then a call for the
\* same key that found the cache empty and returned the same rule's outbound
C8_Witness ==
    \E t \in Threads : \E u \in Threads :
        /\ Returned(t) /\ Returned(u)
        /\ t \in after_clear[u].post
        /\ SameKey(call[t], call[u])
        /\ call[t].hit = "Match" /\ call[u].hit = "None"
        /\ call[u].out = call[t].out
        /\ call[u].out # default_outbound

\* C9: when the decision cache holds an entry for the key (Match or NoMatch),
\* select_outbound returns without evaluating any route rule.
C9_CacheHitEvaluatesNoRule ==
    \A t \in Threads :
        (Returned(t) /\ call[t].hit # "None") => ~call[t].walked

\* the outbound rule evaluation yields from the content the rule manager holds
ContentOutbound(key) ==
    IF \E i \in 1..Len(rules) : RuleMatchesKey(rules[i], key)
    THEN rules[CHOOSE i \in 1..Len(rules) :
                   /\ RuleMatchesKey(rules[i], key)
                   /\ \A j \in 1..(i - 1) : ~RuleMatchesKey(rules[j], key)].outbound
    ELSE default_outbound

\* C10: after a rule set is replaced under an id whose matcher is cached,
\* every later query is answered from the new content.
C10_ReplacedRuleSetAnswersFromNewContent ==
    \A t \in Threads : Returned(t) => call[t].out = ContentOutbound(call[t].key)

IsPrefix(a, b) == Len(a) <= Len(b) /\ SubSeq(b, 1, Len(a)) = a

\* C11: what the relay has written to a peer is at every moment the beginning
\* of what the other peer sent, and when both peers have sent their N and M
\* bytes and closed and start has returned, the target has received exactly
\* the client's bytes and the client exactly the target's, in order.
C11_RelayDeliversExactlyWhatWasSent ==
    /\ IsPrefix(received["target"], payload["client"])
    /\ IsPrefix(received["client"], payload["target"])
    /\ (relay_result = "Ok" /\ loop["c2t"] = "eof" /\ loop["t2c"] = "eof") =>
          /\ received["target"] = payload["client"]
          /\ received["client"] = payload["target"]

\* the relay returned after copying more than a buffer of bytes one way and
\* a single byte the other way
C11_Witness ==
    /\ relay_result = "Ok" /\ loop["c2t"] = "eof" /\ loop["t2c"] = "eof"
    /\ Len(payload["client"]) > BufCap
    /\ Len(payload["target"]) = 1
    /\ received["target"] = payload["client"]
    /\ received["client"] = payload["target"]

\* a copy loop can take a step that waits for nothing the peers have yet to do
LoopCanStep(d) ==
    \/ loop[d] = "write"
    \/ loop[d] = "read" /\ (src[Source(d)] # <<>> \/ closed[Source(d)])

\* C12: once a copy loop has seen its peer's end-of-stream, start returns
\* without waiting for the other peer: it has returned, or the relay can
\* take its next step on its own.
C12_RelayEndsOnceAPeerClosed ==
    (relay_result = Running /\ \E d \in Dirs : loop[d] = "eof")
        => \E d \in Dirs : LoopCanStep(d)

\* C13: ZeroCopyRelay::start returns Ok whatever end-of-stream and I/O errors
\* the two copy loops met.
C13_StartAlwaysReturnsOk ==
    relay_result \in {Running, "Ok"}

\* start returned after one loop failed while the other was still copying
C13_Witness ==
    /\ relay_result = "Ok"
    /\ \E d \in Dirs : loop[d] = "err" /\ loop[Other(d)] = "dropped"

\* C14: for every address (IPv4, IPv6, or a domain of 1..255 bytes) and every
\* port, the bytes Socks5Response::to_bytes writes after its three-byte header
\* decode through Address::from_bytes to the same address and the same port.
C14_ReplyAddressRoundTrips ==
    decoded # ParsePending =>
        /\ decoded.kind = "Ok"
        /\ decoded.address = resp.address
        /\ decoded.port = resp.port

\* a domain of 255 bytes and a port with two different bytes went round
C14_Witness ==
    /\ decoded.kind = "Ok"
    /\ resp.address = Domain(LongestDomain)
    /\ resp.port = 256
    /\ decoded.address = resp.address
    /\ decoded.port = resp.port

\* a SOCKS5 reply (version, status, reserved, address, port), as opposed to
\* the two-byte method selection
IsReply(msg) == Len(msg) > 2

Entered(st) == \E i \in DOMAIN done : done[i] = st

FailedAt(st) == conn_result.kind = "Err" /\ conn_result.at = st

SuccessReplySent == \E i \in DOMAIN sent : IsReply(sent[i]) /\ sent[i][2] = 0

\* a greeting with version 5 that announces at least one method and carries
\* as many methods as it announces
WellFormedGreeting(g) ==
    Len(g) >= 3 /\ g[1] = 5 /\ g[2] >= 1 /\ Len(g) = 2 + g[2]

OffersNoAuth(g) == \E i \in 3..Len(g) : g[i] = 0

\* C15: for every client greeting with version 0x05 (the client's socket
\* working): when method 0x00 is among the offered methods the server replies
\* exactly [0x05, 0x00] and the handshake succeeds; otherwise it replies
\* exactly [0x05, 0xFF], the handshake fails with AuthFailed and the
\* connection never reaches request parsing.
C15_HandshakeSelectsNoAuthOrFailsClosed ==
    (/\ Entered("handshake")
     /\ WellFormedGreeting(greeting)
     /\ ~(FailedAt("handshake") /\ conn_result.err = "Io"))
    => IF OffersNoAuth(greeting)
       THEN /\ sent # <<>>
            /\ sent[1] = <<5, 0>>
            /\ ~FailedAt("handshake")
       ELSE /\ sent = <<(<<5, 255>>)>>
            /\ FailedAt("handshake")
            /\ conn_result.err = "AuthFailed"
            /\ ~Entered("read_request")
            /\ ~Entered("parse")

\* C16: Socks5Request::from_bytes accepts a request only when its command byte
\* is 0x01; in a SOCKS5 request (version 0x05, complete through its address
\* type) every other command byte yields UnsupportedCommand and, the command
\* being connect, every address type other than 1, 3, 4 yields
\* InvalidAddressType; in both cases no upstream connection is attempted.
C16_OnlyConnectAndKnownAddressTypes ==
    /\ Entered("resolve") => (Len(request) >= 2 /\ request[2] = 1)
    /\ (Entered("parse") /\ Len(request) >= 4 /\ request[1] = 5) =>
          /\ request[2] # 1 =>
                /\ FailedAt("parse")
                /\ conn_result.err = "UnsupportedCommand"
                /\ conn_result.code = request[2]
                /\ ~Entered("connect") /\ upstream = "none"
          /\ (request[2] = 1 /\ request[4] \notin {1, 3, 4}) =>
                /\ FailedAt("parse")
                /\ conn_result.err = "InvalidAddressType"
                /\ conn_result.code = request[4]
                /\ ~Entered("connect") /\ upstream = "none"

\* a request with another command was refused as UnsupportedCommand and the
\* connection closed with no upstream
C16_Witness ==
    /\ FailedAt("parse")
    /\ conn_result.err = "UnsupportedCommand"
    /\ conn_result.code = 2
    /\ Len(request) > 4
    /\ stage = "closed" /\ upstream = "none"

\* the length a request states for itself: header, address, port
RequestStatedLen(r) ==
    4 + (IF r[4] = 1 THEN 4
         ELSE IF r[4] = 4 THEN 16
         ELSE IF r[4] = 3 THEN (IF Len(r) >= 5 THEN 1 + r[5] ELSE 1)
         ELSE 0) + 2

TruncatedRequest(r) == Len(r) < 4 \/ Len(r) < RequestStatedLen(r)

TruncatedGreeting(g) == Len(g) < 2 \/ Len(g) < 2 + g[2]

\* C17: a truncated greeting or request makes the connection fail with an
\* error value, and parsing never panics on any byte sequence.
C17_MalformedInputFailsWithErrorNeverPanics ==
    /\ conn_result.kind # "Panic"
    /\ (Entered("handshake") /\ TruncatedGreeting(greeting)) =>
          (conn_result.kind = "Err" /\ stage = "closed")
    /\ (Entered("parse") /\ TruncatedRequest(request)) =>
          (conn_result.kind = "Err" /\ stage = "closed")

\* the stages of a connection, in the order of the claim
StageOrder ==
    <<"handshake", "read_request", "parse", "resolve", "route", "connect", "reply", "relay">>

\* C18: within one connection the stages are entered in the order handshake,
\* request read and parse, resolve and route, upstream connect, success reply,
\* relay; the success reply is sent only with the upstream connected, the relay
\* starts only after the success reply was sent, and a stage that fails is the
\* last stage entered.
C18_StagesStrictlySequential ==
    /\ IsPrefix(done, StageOrder)
    /\ SuccessReplySent => upstream = "connected"
    /\ Entered("relay") => SuccessReplySent
    /\ conn_result.kind \in {"Err", "Panic"} =>
          (stage = "closed" /\ done # <<>> /\ done[Len(done)] = conn_result.at)

\* a connection went through every stage and ended Ok
C18_Witness ==
    /\ conn_result.kind = "Ok"
    /\ done = StageOrder
    /\ SuccessReplySent
    /\ upstream = "connected"

\* the replies among a list of messages
ReplyIndexes(msgs) == {i \in DOMAIN msgs : IsReply(msgs[i])}

\* C19 as stated: when the connect fails the client is sent one failure reply
\* whose status byte is general failure (0x01), no success reply is sent, the
\* relay is not started and the connection is closed.
C19_ConnectFailureSendsGeneralFailure ==
    FailedAt("connect") =>
        /\ Cardinality(ReplyIndexes(sent)) = 1
        /\ \A i \in ReplyIndexes(sent) : sent[i][2] = 1
        /\ ~SuccessReplySent
        /\ ~Entered("relay")
        /\ stage = "closed"

\* C19 amended: when the connect fails, handle_connection attempts to write
\* one failure reply, whose status byte is 0x04 (host unreachable) and whose
\* address and port are the request's, ignores the outcome of that write,
\* sends no success reply, does not start the relay and closes the connection
\* with ConnectionFailed.
C19_ConnectFailureAttemptsHostUnreachableReply ==
    FailedAt("connect") =>
        /\ Cardinality(ReplyIndexes(attempts)) = 1
        /\ \A i \in ReplyIndexes(attempts) :
              /\ attempts[i][2] = 4
              /\ Address_from_bytes(SubSeq(attempts[i], 4, Len(attempts[i])))
                     = ParseOk(target.address, target.port)
        /\ \A i \in ReplyIndexes(sent) : sent[i][2] = 4
        /\ Cardinality(ReplyIndexes(sent)) <= 1
        /\ ~SuccessReplySent
        /\ ~Entered("relay")
        /\ stage = "closed"
        /\ upstream = "none"
        /\ conn_result.err = "ConnectionFailed"

\* the connect to a resolved domain failed and the client received the reply
C19_Witness ==
    /\ FailedAt("connect")
    /\ target.address.atyp = 3
    /\ Cardinality(ReplyIndexes(sent)) = 1
    /\ \A i \in ReplyIndexes(sent) : sent[i][2] = 4

\* C20, for the errors that follow a parsed request: for a DNS resolution
\* failure, an unknown outbound name and an upstream connect failure, all
\* after the handshake succeeded and before the success reply, a failure reply
\* is attempted to the client before the connection closes, and the error
\* returned is the original one even when that write fails.
C20_FailureReplyAttemptedBeforeClose ==
    (conn_result.kind = "Err" /\ conn_result.at \in {"resolve", "route", "connect"})
    => /\ \E i \in ReplyIndexes(attempts) : attempts[i][2] # 0
       /\ conn_result.err # "Io"


\* C21: an error while serving one connection, or a failed accept, ends only
\* that connection's task: the accept loop keeps accepting, and every other
\* connection's task is left where it stood, free to go on through its stages.
C21_FailureEndsOnlyItsOwnTask ==
    [][/\ listening'
       /\ \A c \in Conns :
             (ended[c] = "none" /\ ended'[c] \in {"Err", "Panic"})
                 => \A d \in Conns \ {c} :
                        accepted'[d] = accepted[d] /\ ended'[d] = ended[d]
       /\ accept_errors' # accept_errors => (accepted' = accepted /\ ended' = ended)]_vars

\* a connection accepted after two failures ran to the end of its relay
\* while an earlier one was still in flight
C21_Witness ==
    \E c, d \in Conns :
        /\ seen_at_accept[c] >= 2
        /\ accept_errors >= 1
        /\ ended[c] = "Ok"
        /\ d < c /\ TaskRunning(d)
        /\ listening


\* C22: malformed rule-set content is rejected when the router is set up, so
\* no select_outbound call panics and the lock of the matcher cache is never
\* poisoned.
C22_MalformedContentNeverReachesALookup ==
    /\ ~matcher_cache.poisoned
    /\ \A t \in Threads : call[t].pc # "panicked"


CacheSize(map) == Cardinality(DOMAIN map)

\* C23: whatever the capacity m >= 0 and whatever calls were made, the domain
\* cache holds at most m entries and the IP cache holds at most m entries.
C23_CacheNeverExceedsMaxSize ==
    /\ CacheSize(mcache.domain_cache) <= mcache.max_size
    /\ CacheSize(mcache.ip_cache) <= mcache.max_size

\* C24: right after set_domain(d, r), get_domain(d) is r; a key never set
\* reads None; the same for set_ip / get_ip; and set_domain leaves the IP
\* cache, set_ip the domain cache, as it was.
C24_SetThenGetAndCachesIndependent ==
    /\ [](/\ last_call.op = "set_domain" => get_domain(mcache, last_call.d) = last_call.r
          /\ last_call.op = "set_ip" => get_ip(mcache, last_call.ip) = last_call.r
          /\ \A d \in CacheDomains \ ever_set.d : d \notin DOMAIN mcache.domain_cache
          /\ \A ip \in CacheIps \ ever_set.ip : ip \notin DOMAIN mcache.ip_cache)
    /\ [][/\ last_call'.op = "set_domain" => mcache'.ip_cache = mcache.ip_cache
          /\ last_call'.op = "set_ip" => mcache'.domain_cache = mcache.domain_cache]_vars

\* set_domain on a full cache evicted a batch, the key just set reads back,
\* an evicted key is gone, and the IP cache holds an entry meanwhile
C24_Witness ==
    /\ last_call.op = "set_domain"
    /\ mcache.max_size >= 2
    /\ CacheSize(mcache.domain_cache) < mcache.max_size
    /\ Cardinality(ever_set.d) > mcache.max_size
    /\ get_domain(mcache, last_call.d) = last_call.r
    /\ CacheSize(mcache.ip_cache) >= 1
    /\ \E d \in ever_set.d : d \notin DOMAIN mcache.domain_cache


\* the suffix rule: d is the suffix, or ends with "." followed by the suffix
SuffixRule(d, suffix) == d = suffix \/ EndsWith(d, <<".">> \o suffix)

\* C25: DomainMatcher::matches(d) is Match exactly when d is in the exact set,
\* or satisfies the suffix rule for some suffix, or contains some keyword, or
\* matches some regex.
C25_MatchIffSomeCriterionHolds ==
    dm_result # Pending =>
        ((dm_result = "Match") <=>
            \/ \E i \in 1..Len(dm_set.domain) : dm_domain = dm_set.domain[i]
            \/ \E i \in 1..Len(dm_set.domain_suffix) : SuffixRule(dm_domain, dm_set.domain_suffix[i])
            \/ \E i \in 1..Len(dm_set.domain_keyword) : Contains(dm_domain, dm_set.domain_keyword[i])
            \/ \E i \in 1..Len(dm_set.domain_regex) : RegexIsMatch(dm_set.domain_regex[i], dm_domain))


\* C26: a route rule matches a key exactly when at least one of the rule sets
\* it lists matches the key: the loop selects the rule's outbound only when
\* one of its rule sets matched, leaves the rule only when none did, and a
\* call never returns the outbound of a rule none of whose rule sets match.
C26_RuleMatchesIffSomeRuleSetMatches ==
    /\ [](\A t \in Threads :
            (Returned(t) /\ call[t].out # default_outbound)
                => \E i \in 1..Len(rules) :
                       /\ rules[i].outbound = call[t].out
                       /\ RuleMatchesKey(rules[i], call[t].key))
    /\ [][\A t \in Threads :
            (call[t].pc = "walk" /\ call'[t].pc # "walk" /\ call'[t].ri = call[t].ri)
                => RuleMatchesKey(rules[call[t].ri], call[t].key)]_vars
    /\ [][\A t \in Threads :
            (call[t].pc = "walk" /\ call'[t].ri > call[t].ri)
                => ~RuleMatchesKey(rules[call[t].ri], call[t].key)]_vars

\* the first rule was left because its rule set does not match; the second
\* was selected through the second rule set it lists, the first being absent
C26_Witness ==
    \E t \in Threads :
        /\ Returned(t)
        /\ Len(rules) = 2
        /\ ~RuleMatchesKey(rules[1], call[t].key)
        /\ Len(rules[2].rule_sets) = 3
        /\ ~RuleSetMatchesKey(rules[2].rule_sets[1], call[t].key)
        /\ RuleSetMatchesKey(rules[2].rule_sets[2], call[t].key)
        /\ rules[1].outbound # rules[2].outbound
        /\ call[t].out = rules[2].outbound


\* thread t stands at a lock that thread u holds in a conflicting mode
WaitsFor(t, u) ==
    \/ lookup[t].pc = "cache_read" /\ match_cache_lock.writer = u
    \/ lookup[t].pc = "matcher_write" /\ matcher_cache_lock.writer = u
    \/ lookup[t].pc = "cache_write"
          /\ (match_cache_lock.writer = u \/ u \in match_cache_lock.readers)

\* C27: two lookups that only read (the matchers built, the key cached as a
\* Match) never wait for a lock the other holds.
C27_ReadOnlyLookupsNeverBlockEachOther ==
    \A t, u \in Threads :
        (t # u /\ lookup[t].hit = "Match" /\ lookup[u].hit = "Match") => ~WaitsFor(t, u)

LastAttemptIsFailureReply ==
    /\ attempts /= <<>>
    /\ IsReply(attempts[Len(attempts)])
    /\ attempts[Len(attempts)][2] /= 0

\* C28: a protocol variant called for a capability it does not support
\* returns an error and opens or binds no socket (connect_outbound of
\* Blackhole, TransparentProxy and the VLESS stub; start_inbound of Direct,
\* Blackhole and the VLESS stub); a connection routed to a Blackhole outbound
\* ends with a failure reply written to the client, as far as the client
\* still reads, and never has an upstream connection.
C28_UnsupportedCapabilityFailsWithoutSocket ==
    /\ (proto_call.op = "connect_outbound"
           /\ protocol.kind \in {"blackhole", "tproxy", "vless"})
          => proto_call.r.kind = "Err" /\ proto_call.r.sockets = 0
    /\ (proto_call.op = "start_inbound"
           /\ protocol.kind \in {"direct", "blackhole", "vless"})
          => proto_call.r.kind = "Err" /\ proto_call.r.sockets = 0
    /\ connector = "Blackhole"
          => /\ stage \in {"connect", "closed"}
             /\ upstream = "none"
             /\ dials = 0
             /\ ~SuccessReplySent
             /\ stage = "closed"
                   => FailedAt("connect") /\ LastAttemptIsFailureReply

\* a blackhole protocol was asked to connect, and a connection routed to
\* the blackhole outbound has ended
C28_Witness ==
    /\ proto_call.op = "connect_outbound"
    /\ protocol.kind = "blackhole"
    /\ connector = "Blackhole"
    /\ stage = "closed"
    /\ sent = attempts

\* C29: when the router names an outbound the outbound manager does not
\* hold, handle_connection returns an error from its routing step: it has
\* dialed no upstream, written no success reply and started no relay.
C29_UnregisteredOutboundFailsAtRouting ==
    (outbound_name /= "none" /\ outbound_name \notin DOMAIN Registry)
        => /\ stage = "closed"
           /\ FailedAt("route")
           /\ conn_result.err = "Protocol"
           /\ dials = 0
           /\ upstream = "none"
           /\ ~SuccessReplySent
           /\ ~Entered("connect")
           /\ ~Entered("relay")

\* the router named an outbound that no configuration entry defines
C29_Witness ==
    /\ outbound_name = "ghost"
    /\ stage = "closed"
    /\ target.address.atyp = 3

\* C30: Socks5Outbound::connect returns the stream only when the server
\* selected method 0x00 and the reply's status is 0x00; a reply with another
\* status yields ConnectionFailed; when it returns the stream it has read the
\* method selection and the whole reply (header, bound address of the length
\* its type byte gives, port) and nothing more, so the client is relayed the
\* target's bytes only.
C30_StreamOnlyAfterWholeSuccessReply ==
    LET r == s5_call.r
        script == server_script
    IN  s5_call.op /= "none" =>
          /\ r.kind = "Ok"
                => /\ script.method = <<5, 0>>
                   /\ script.reply \in S5Replies
                   /\ script.reply[2] = 0
                   /\ r.consumed = Len(script.method) + Len(script.reply)
          /\ (s5_call.net = "established" /\ script.method = <<5, 0>>
                 /\ Len(script.reply) >= 4 /\ script.reply[2] /= 0)
                => r.kind = "Err" /\ r.err = "ConnectionFailed"
          /\ s5_call.op = "relaying" => to_client = script.payload

\* the server bound a domain and the target has already sent bytes that look
\* like a SOCKS5 message
C30_Witness ==
    /\ s5_call.op = "relaying"
    /\ server_script.reply[1] = 5
    /\ server_script.reply[4] = 3
    /\ server_script.reply[5] = 2
    /\ to_client = <<5, 0>>

\* C31: a message whose version byte is not 0x05 is rejected; here the two
\* messages of the upstream server: Socks5Outbound::connect returns an error
\* when the method selection or the CONNECT reply carries another version.
C31_UpstreamMessagesOfOtherVersionRejected ==
    LET script == server_script
    IN  (s5_call.op /= "none"
           /\ \/ (Len(script.method) >= 1 /\ script.method[1] /= 5)
              \/ (Len(script.reply) >= 1 /\ script.reply[1] /= 5))
          => s5_call.r.kind = "Err"

\* every id but the one given, and the other map, are as before the step
OthersKept(before, after, other_before, other_after, id_added) ==
    /\ \A id \in RuleSetIds \ {id_added} :
          /\ id \in DOMAIN after <=> id \in DOMAIN before
          /\ id \in DOMAIN before => after[id] = before[id]
    /\ other_after = other_before

\* C32: a new manager holds no set; after add_domain_set(s) the id of s
\* yields s, whatever it held before, every other domain id yields what it
\* did, and no IP set changes; the same for add_ip_set, the two kinds of id
\* being looked up apart.
C32_GetReturnsLastAddedPerNamespace ==
    /\ \A id \in RuleSetIds : get_domain_set(RuleSetManager_new, id) = "None"
                               /\ get_ip_set(RuleSetManager_new, id) = "None"
    /\ [](call /= <<>> =>
            /\ call.op = "add_domain_set"
                  => /\ call.set.id \in DOMAIN rule_manager.domain_sets
                     /\ get_domain_set(rule_manager, call.set.id) = call.set
            /\ call.op = "add_ip_set"
                  => /\ call.set.id \in DOMAIN rule_manager.ip_sets
                     /\ get_ip_set(rule_manager, call.set.id) = call.set)
    /\ [][/\ call'.op = "add_domain_set"
               => OthersKept(rule_manager.domain_sets, rule_manager'.domain_sets,
                             rule_manager.ip_sets, rule_manager'.ip_sets, call'.set.id)
          /\ call'.op = "add_ip_set"
               => OthersKept(rule_manager.ip_sets, rule_manager'.ip_sets,
                             rule_manager.domain_sets, rule_manager'.domain_sets,
                             call'.set.id)]_vars

\* id A was just given a domain set and holds an IP set as well; id B holds
\* a domain set and was never added as an IP set
C32_Witness ==
    /\ "A" \in DOMAIN rule_manager.domain_sets
    /\ "B" \in DOMAIN rule_manager.domain_sets
    /\ rule_manager.domain_sets["A"] = SuffixOnlySet("A", <<"b", ".", "a">>)
    /\ rule_manager.domain_sets["B"] = KeywordOnlySet("B", <<"a">>)
    /\ "A" \in DOMAIN rule_manager.ip_sets
    /\ get_ip_set(rule_manager, "B") = "None"
    /\ call /= <<>>
    /\ call.op = "add_domain_set"
    /\ call.set.id = "A"

\* C33: the list the pool keeps for a target never holds more than
\* max_connections_per_target connections.
C33_IdlePerTargetWithinMaximum ==
    \A a \in Targets : Len(pools[a]) <= max_connections_per_target

\* the list of h1 is full and a caller holds one more live connection to h1
C33_Witness ==
    /\ Len(pools["h1"]) = max_connections_per_target
    /\ \E t \in Tasks : \E c \in held[t] : c.target_addr = "h1" /\ ~is_expired(c)

\* the places a connection is at: the positions of the lists and the callers
Places ==
    {<<"pool", a, i>> : a \in Targets, i \in 1..max_connections_per_target}
    \cup {<<"caller", t, 0>> : t \in Tasks}

IdsAt(place) ==
    IF place[1] = "pool"
    THEN (IF place[3] <= Len(pools[place[2]]) THEN {pools[place[2]][place[3]].id} ELSE {})
    ELSE {c.id : c \in held[place[2]]}

\* C34: a connection is at one place at a time: idle at one position of the
\* list of its own target, or with one caller.
C34_ConnectionHasOneOwner ==
    /\ \A a \in Targets : \A i \in 1..Len(pools[a]) : pools[a][i].target_addr = a
    /\ \A a \in Targets : Len(pools[a]) <= max_connections_per_target
    /\ \A p, q \in Places : p /= q => IdsAt(p) \cap IdsAt(q) = {}

\* two connections to h1 exist: the first is with a caller, the second lies
\* idle in the list of h1, and the other caller has just asked for h2
C34_Witness ==
    /\ \E c \in held["t2"] : c.id = 1 /\ c.target_addr = "h1"
    /\ Len(pools["h1"]) = 1
    /\ pools["h1"][1].id > 1
    /\ task["t1"].pc = "acquire"
    /\ task["t1"].target = "h2"

HeldIds(t) == {c.id : c \in held[t]}

Dialing == {t \in Tasks : task[t].pc = "connect"}

\* C36: a new pool is empty and has max_total_connections permits; whenever
\* no get_connection stands between taking its permit and returning, all the
\* permits are available; taking a connection from a list and returning one
\* leave the permits as they are.
C36_PermitsFullOutsideDial ==
    /\ [](Dialing = {} => semaphore = max_total_connections)
    /\ [](next_conn = 0 /\ (\A t \in Tasks : task[t].pc = "idle")
            => semaphore = max_total_connections /\ PooledIdle = {} /\ Issued = {})
    /\ [][next_conn' = next_conn /\ task' = task => semaphore' = semaphore]_vars

\* one connection has been dialed and a caller holds it; another caller
\* stands before the semaphore, and every permit is available
C36_Witness ==
    /\ semaphore = max_total_connections
    /\ next_conn = 1
    /\ \E c \in held["t2"] : c.id = 1
    /\ task["t1"].pc = "acquire"

\* the rule walk for this key, run alone, can come to a domain rule set
\* whose matcher cannot be built
WalkMeetsMalformedSet(key) ==
    /\ key.kind = "domain"
    /\ \E i \in 1..Len(rules) : \E j \in 1..Len(rules[i].rule_sets) :
          LET id == rules[i].rule_sets[j]
          IN  /\ id \in DOMAIN rule_manager.domain_sets
              /\ LET set == rule_manager.domain_sets[id]
                 IN  ~DomainMatcher_new(set.domain, set.domain_suffix,
                                        set.domain_keyword, set.domain_regex).ok

\* C39: concurrent select_outbound calls all complete, each with the
\* outbound it returns when run alone: a call whose own rule walk meets no
\* rule set that fails to build never panics, and a call that has returned
\* holds the outbound of the first rule that matches its key, or the default
\* outbound when none does.
C39_ConcurrentLookupsCompleteAsAlone ==
    \A t \in Threads :
        /\ call[t].pc = "panicked" => WalkMeetsMalformedSet(call[t].key)
        /\ Returned(t) =>
              \/ \E i \in 1..Len(rules) :
                    /\ RuleMatchesKey(rules[i], call[t].key)
                    /\ \A j \in 1..(i - 1) : ~RuleMatchesKey(rules[j], call[t].key)
                    /\ call[t].out = rules[i].outbound
              \/ /\ \A i \in 1..Len(rules) : ~RuleMatchesKey(rules[i], call[t].key)
                 /\ call[t].out = default_outbound

\* a set of key k to result r on a map of at least max_size entries removed
\* the keys evicted, half of those present, and nothing else: every other
\* key but k holds what it held, and k holds r
EvictedHalf(before, after, max_size, evicted, k, r) ==
    Cardinality(DOMAIN before) >= max_size
        => /\ evicted \subseteq DOMAIN before
           /\ Cardinality(evicted) = Cardinality(DOMAIN before) \div 2
           /\ \A x \in DOMAIN before \ {k} :
                 IF x \in evicted THEN x \notin DOMAIN after
                 ELSE x \in DOMAIN after /\ after[x] = before[x]
           /\ DOMAIN after \subseteq DOMAIN before \cup {k}
           /\ k \in DOMAIN after
           /\ after[k] = r

\* C38: set_domain (set_ip) on a cache of n >= max_size entries removes
\* floor(n/2) of the entries present before it inserts the new one, and the
\* entries it does not remove keep their results.
C38_OverflowEvictsHalfAndKeepsTheRest ==
    [][/\ last_call'.op = "set_domain"
            => EvictedHalf(mcache.domain_cache, mcache'.domain_cache, mcache.max_size,
                           last_call'.victims, last_call'.d, last_call'.r)
       /\ last_call'.op = "set_ip"
            => EvictedHalf(mcache.ip_cache, mcache'.ip_cache, mcache.max_size,
                           last_call'.victims, last_call'.ip, last_call'.r)]_vars

\* a full cache of two domains was given a third: one was evicted, the other
\* is still there beside the new one
C38_Witness ==
    /\ last_call.op = "set_domain"
    /\ Cardinality(last_call.victims) = 1
    /\ last_call.d \notin last_call.victims
    /\ Cardinality(DOMAIN mcache.domain_cache) = 2
    /\ mcache.max_size = 2

\* C37: a task that waits for a permit of the admission semaphore, or holds
\* one, does not hold the write guard of the pool's lists, so the lists stay
\* open to the other callers while it waits.
C37_NoSemaphoreWaitUnderListLock ==
    \A t \in PoolCallers : caller[t].pc \in {"acquire", "dial"} => pools_lock /= t

\* one get_connection holds the only permit, another waits for it, and
\* cleanup_expired has the write guard meanwhile
C37_Witness ==
    /\ available_permits = 0
    /\ caller["t1"].pc = "acquire"
    /\ caller["t2"].pc = "dial"
    /\ pools_lock = "sweeper"

\* C40: for a well-formed greeting and a well-formed CONNECT request, the
\* handshake accepts the greeting and the request is decoded as it is when
\* each message is read whole by a read of its own, however the bytes are
\* cut into reads.
C40_DecodingIndependentOfChunking ==
    LET base == Socks5Request_from_bytes(read_into(client_msgs.request))
    IN  /\ FailedAt("handshake") => conn_result.err = "Io"
        /\ (Entered("parse") /\ stage /= "parse" /\ base.kind = "Ok")
              => /\ ~FailedAt("parse")
                 /\ conn_result.kind /= "Panic"
                 /\ target = [address |-> base.address, port |-> base.port]

=============================================================================
